---- MODULE Spec2Model ----
(***************************************************************************)
(* Order / payment reconciliation of the SablePay merchant POS.            *)
(*                                                                         *)
(* The state is the record store (orders, payment status records), the     *)
(* outside world the handlers observe (clock, chain logs, the transfer     *)
(* provider) and the request handlers in flight.  A handler is a sequence  *)
(* of steps cut at its await points: a step runs the code up to the next   *)
(* await, a store call is its own step.  With the in-memory store a store  *)
(* call does not suspend, so the handler keeps the event loop (lock) until *)
(* it awaits real I/O; with the DynamoDB store every store call suspends.  *)
(*                                                                         *)
(* Amounts are in cents, timestamps in minutes.                            *)
(***************************************************************************)
EXTENDS Integers, Sequences, FiniteSets, TLC

VARIABLES backend, env, now, orders, payments, chain, mesh, linked, slots, lock, last, probe

vars == <<backend, env, now, orders, payments, chain, mesh, linked, slots, lock, last, probe>>

-----------------------------------------------------------------------------
(* Bounds of the model *)

MaxOrders == 1
MaxHandlers == 1
MaxTime == 17
MaxHist == 3
MaxTransfers == 1
MaxDelta == 60
MaxLogs == 2
MaxCalls == 2

(* Program constants *)

ORDER_EXPIRATION_MINUTES == 15
MAX_AMOUNT_CENTS == 1000000
SCAN_WINDOW_BLOCKS == 500

-----------------------------------------------------------------------------
(* Values *)

None == "none"
NoNum == -1

(* MaxOrders orders are created when every handler is at work; the matching
   scenario creates one more *)
OrderIds == 1..(MaxOrders + 1)
UnknownId == 0
(* Handler slots. The specifications of the whole service run MaxHandlers
   requests at a time (Handlers); the scenario of two concurrent updates of one
   record uses one slot more. *)
Slots == 1..(MaxHandlers + 1)
Handlers == 1..MaxHandlers

TerminalStatuses == {"completed", "failed", "expired", "cancelled"}

MERCHANT == "0xmerchant"

networkPriority == <<"base", "polygon", "arbitrum", "optimism", "avalanche", "bsc", "ethereum">>

TOKEN_CONTRACTS ==
  [ ethereum  |-> <<"USDC", "USDT", "DAI", "FRAX", "TUSD", "USDP", "GUSD", "LUSD", "sUSD", "PYUSD", "EURS", "EURT">>,
    polygon   |-> <<"USDC", "USDT", "DAI", "FRAX", "TUSD", "EURS">>,
    arbitrum  |-> <<"USDC", "USDT", "DAI", "FRAX", "LUSD">>,
    optimism  |-> <<"USDC", "USDT", "DAI", "FRAX", "LUSD", "sUSD">>,
    base      |-> <<"USDC", "DAI">>,
    avalanche |-> <<"USDC", "USDT", "DAI", "TUSD">>,
    bsc       |-> <<"USDC", "USDT", "DAI", "BUSD", "TUSD", "USDD">> ]

STABLECOINS == {"USDC", "USDT", "DAI", "BUSD", "FRAX", "TUSD", "PYUSD"}

ALCHEMY_NETWORK_MAP ==
  [ ETH_MAINNET |-> "ethereum", ETH_SEPOLIA |-> "ethereum", MATIC_MAINNET |-> "polygon",
    MATIC_AMOY |-> "polygon", ARB_MAINNET |-> "arbitrum", ARB_SEPOLIA |-> "arbitrum",
    OPT_MAINNET |-> "optimism", OPT_SEPOLIA |-> "optimism", BASE_MAINNET |-> "base",
    BASE_SEPOLIA |-> "base", AVAX_MAINNET |-> "avalanche", BNB_MAINNET |-> "bsc" ]

(* The transfers the outside world can make to the merchant address: each has
   its own hash and sender, so a stored field tells which transfer it is from. *)
PAYMENT_ACTIVITY ==
  << [hash |-> "0xa1", from |-> "0xc1", to |-> MERCHANT, network |-> "base",
      symbol |-> "USDC", amount |-> 500, category |-> "token", alchemy |-> "BASE_MAINNET"],
     [hash |-> "0xa2", from |-> "0xc2", to |-> MERCHANT, network |-> "polygon",
      symbol |-> "USDT", amount |-> 515, category |-> "erc20", alchemy |-> "MATIC_MAINNET"] >>

(* Activity on the merchant address that pays no order of the model: a
   transfer of the native coin, a transfer of a token that is no stablecoin,
   and a stablecoin transfer of an amount far from every order amount *)
OTHER_ACTIVITY ==
  << [hash |-> "0xa3", from |-> "0xc3", to |-> MERCHANT, network |-> "base",
      symbol |-> "ETH", amount |-> 500, category |-> "external", alchemy |-> "BASE_MAINNET"],
     [hash |-> "0xa4", from |-> "0xc4", to |-> MERCHANT, network |-> "base",
      symbol |-> "WETH", amount |-> 500, category |-> "token", alchemy |-> "BASE_MAINNET"],
     [hash |-> "0xa5", from |-> "0xc5", to |-> MERCHANT, network |-> "base",
      symbol |-> "USDC", amount |-> 700, category |-> "token", alchemy |-> "BASE_MAINNET"] >>

TRANSFERS == PAYMENT_ACTIVITY \o OTHER_ACTIVITY

TransferIds == 1..Len(PAYMENT_ACTIVITY)
ActivityIds == 1..Len(TRANSFERS)

(* What the transfer provider reports about the transfer it brokers for an order. *)
MESH_TX == [hash |-> "0xm1", from |-> "0xc9", chain |-> "Ethereum", token |-> "USDC",
            amount |-> 500]

AmountInputs == {0, 500, MAX_AMOUNT_CENTS + 1}
AmountBoundaryInputs == {-1, 0, 1, 500, MAX_AMOUNT_CENTS, MAX_AMOUNT_CENTS + 1}
NetworkInputs == {"base", "auto"}
MeshStatusInputs == {"pending", "succeeded", "failed"}

-----------------------------------------------------------------------------
(* Records of the store *)

NumKeys == {"amount", "amountReceived", "updatedAt"}

IsUndef(k, v) == IF k \in NumKeys THEN v = NoNum ELSE v = None

NullOrder ==
  [orderId |-> 0, amount |-> NoNum, stablecoin |-> None, networkId |-> None,
   merchantWalletAddress |-> None, status |-> None, createdAt |-> NoNum,
   updatedAt |-> NoNum, expiresAt |-> NoNum, obj |-> 0]

NullPayment ==
  [orderId |-> 0, status |-> None, updatedAt |-> NoNum, statusHistory |-> <<>>,
   transactionHash |-> None, networkId |-> None, stablecoin |-> None,
   amount |-> NoNum, senderAddress |-> None, meshTransferId |-> None,
   amountReceived |-> NoNum, errorMessage |-> None, obj |-> 0]

HistoryEntry(status, timestamp, message) ==
  [status |-> status, timestamp |-> timestamp, message |-> message]

(* getOrder / getPaymentStatus: the stored record, or null *)
getOrder(os, orderId) == IF orderId \in DOMAIN os THEN os[orderId] ELSE NullOrder

getPaymentStatus(ps, orderId) == IF orderId \in DOMAIN ps THEN ps[orderId] ELSE NullPayment

(* Identity of JavaScript objects, in-memory store only: a stored record is
   the object a handler got from the store until the store replaces it. *)
UsedObjs ==
  {orders[o].obj : o \in DOMAIN orders} \cup {payments[o].obj : o \in DOMAIN payments}
    \cup {slots[s].ord.obj : s \in Slots} \cup {slots[s].pd.obj : s \in Slots}

FreshObj(avoid) ==
  IF backend = "memory"
  THEN CHOOSE n \in 1..(4 * MaxHandlers + 2 * MaxOrders + 4) :
         /\ n \notin UsedObjs \cup avoid
         /\ \A m \in 1..(n - 1) : m \in UsedObjs \cup avoid
  ELSE 0

-----------------------------------------------------------------------------
(* The record store: in-memory (Map) and DynamoDB implementations *)

SetKey(m, k, v) == [x \in (DOMAIN m) \cup {k} |-> IF x = k THEN v ELSE m[x]]

(* createOrder, in-memory: ordersStore.set *)
memCreateOrder(os, order, obj) == SetKey(os, order.orderId, [order EXCEPT !.obj = obj])

(* createOrder, DynamoDB: Put with attribute_not_exists(orderId); throws otherwise *)
ddbCreateOrderThrows(os, order) == order.orderId \in DOMAIN os

ddbCreateOrder(os, order) ==
  IF ddbCreateOrderThrows(os, order) THEN os ELSE SetKey(os, order.orderId, order)

(* A store whose updateOrderStatus writes nothing *)
memUpdateOrderStatusKept(os, orderId, status, t, obj) == os

(* An update that also pushes the expiry of the order forward *)
memUpdateOrderStatusExtending(os, orderId, status, t, obj) ==
  IF orderId \notin DOMAIN os THEN os
  ELSE [os EXCEPT ![orderId] = [@ EXCEPT !.status = status, !.updatedAt = t, !.obj = obj,
                                         !.expiresAt = t + ORDER_EXPIRATION_MINUTES]]

(* updateOrderStatus, in-memory: throws when the order is missing, otherwise
   stores a new object {...existing, status, updatedAt: now} *)
memUpdateOrderStatusThrows(os, orderId) == orderId \notin DOMAIN os

memUpdateOrderStatus(os, orderId, status, t, obj) ==
  IF memUpdateOrderStatusThrows(os, orderId) THEN os
  ELSE [os EXCEPT ![orderId] = [@ EXCEPT !.status = status, !.updatedAt = t, !.obj = obj]]

(* updateOrderStatus, DynamoDB: UpdateItem SET #status, updatedAt (an upsert) *)
ddbUpdateOrderStatus(os, orderId, status, t) ==
  SetKey(os, orderId,
         [getOrder(os, orderId) EXCEPT !.orderId = orderId, !.status = status, !.updatedAt = t])

(* A store that drops the record it is given *)
upsertPaymentStatusLost(ps, record, obj) == ps

(* upsertPaymentStatus: set / Put *)
upsertPaymentStatus(ps, record, obj) == SetKey(ps, record.orderId, [record EXCEPT !.obj = obj])

(* A history builder that appends whenever a status is given, also when it is
   the status the record already has *)
BuildStatusHistoryAlways(existing, updates, t) ==
  IF "status" \in DOMAIN updates /\ updates.status # None
  THEN Append(existing.statusHistory,
              HistoryEntry(updates.status, t,
                           IF "errorMessage" \in DOMAIN updates
                           THEN updates.errorMessage ELSE None))
  ELSE existing.statusHistory

(* The status history both updatePaymentStatus implementations build from the
   record they read: one entry is appended iff updates.status is set and
   differs from the status read. *)
BuildStatusHistory(existing, updates, t) ==
  IF /\ "status" \in DOMAIN updates
     /\ updates.status # None
     /\ updates.status # existing.status
  THEN Append(existing.statusHistory,
              HistoryEntry(updates.status, t,
                           IF "errorMessage" \in DOMAIN updates
                           THEN updates.errorMessage ELSE None))
  ELSE existing.statusHistory

(* updatePaymentStatus, in-memory:
   {orderId, status: existing?.status || "pending", updatedAt: now,
    ...existing, ...updates, statusHistory} *)
memUpdatePaymentStatus(ps, orderId, updates, t, obj) ==
  LET existing == getPaymentStatus(ps, orderId)
      base == IF orderId \in DOMAIN ps
              THEN [existing EXCEPT !.status = IF @ = None THEN "pending" ELSE @]
              ELSE [NullPayment EXCEPT !.orderId = orderId, !.status = "pending",
                                       !.updatedAt = t]
      updated == [k \in DOMAIN NullPayment |->
                    IF k = "statusHistory" THEN BuildStatusHistory(existing, updates, t)
                    ELSE IF k = "obj" THEN obj
                    ELSE IF k \in DOMAIN updates THEN updates[k]
                    ELSE base[k]]
  IN SetKey(ps, orderId, updated)

(* updatePaymentStatus, DynamoDB, second half: UpdateItem SET updatedAt,
   statusHistory and every update field that is not undefined, on whatever
   item is stored by then (created when missing). `history` and `t` were
   computed from the getPaymentStatus that ran before. *)
ddbUpdatePaymentStatus(ps, orderId, updates, history, t) ==
  LET item == [getPaymentStatus(ps, orderId) EXCEPT !.orderId = orderId]
      updated == [k \in DOMAIN NullPayment |->
                    IF k = "updatedAt" THEN t
                    ELSE IF k = "statusHistory" THEN history
                    ELSE IF /\ k \in DOMAIN updates
                            /\ k \notin {"orderId", "updatedAt", "statusHistory"}
                            /\ ~IsUndef(k, updates[k])
                    THEN updates[k]
                    ELSE item[k]]
  IN SetKey(ps, orderId, updated)

toLowerCase(str) ==
  CASE str = "0xMerchant" -> "0xmerchant"
    [] str = "Ethereum" -> "ethereum"
    [] OTHER -> str

RECURSIVE SeqOfIds(_, _)
SeqOfIds(os, ids) ==
  IF ids = {} THEN <<>>
  ELSE LET m == CHOOSE x \in ids : \A y \in ids : x <= y
       IN <<os[m]>> \o SeqOfIds(os, ids \ {m})

(* scanOrdersByMerchantAddress (in-memory only): the orders of the Map, in
   insertion order, whose address matches and whose status is listed *)
scanOrdersByMerchantAddress(os, merchantAddress, statuses) ==
  SeqOfIds(os, {o \in DOMAIN os :
                  /\ toLowerCase(os[o].merchantWalletAddress) = toLowerCase(merchantAddress)
                  /\ (statuses # {} => os[o].status \in statuses)})

-----------------------------------------------------------------------------
(* Handlers in flight *)

NoOps == <<>>

NoUpdates == [k \in {} |-> None]

(* A store call a handler has issued and not yet got the answer of *)
StoreCall(op, st, upd) ==
  [op |-> op, st |-> st, upd |-> upd, phase |-> 0, t |-> NoNum, hist |-> <<>>]

CallGetOrder == StoreCall("getOrder", None, NoUpdates)
CallGetPaymentStatus == StoreCall("getPaymentStatus", None, NoUpdates)
CallScanOrders(address) == StoreCall("scanOrdersByMerchantAddress", address, NoUpdates)
CallUpdateOrderStatus(status) == StoreCall("updateOrderStatus", status, NoUpdates)
CallUpdatePaymentStatus(updates) == StoreCall("updatePaymentStatus", None, updates)
CallCreateOrder(order) == StoreCall("createOrder", None, order)
CallUpsertPaymentStatus(record) == StoreCall("upsertPaymentStatus", None, record)

IdleSlot ==
  [kind |-> "idle", pc |-> "idle", oid |-> 0, ord |-> NullOrder, pd |-> NullPayment,
   ops |-> NoOps, par |-> FALSE, found |-> <<>>, tr |-> 0, nst |-> None, mh |-> None,
   err |-> FALSE, sig |-> <<>>, body |-> <<>>]

(* Points where a handler awaits the outside world rather than the store *)
IOWaitPcs == {"cs_chain", "cs_mesh", "gq_link", "ip_transfer"}

AwaitsIO(sl) == sl.ops = NoOps /\ sl.pc \in IOWaitPcs

(* In-memory store: the handler runs on until it awaits real I/O or returns *)
NextLock(s, sl) ==
  IF backend = "memory" /\ sl.kind # "idle" /\ ~AwaitsIO(sl) THEN s ELSE 0

Response(kind, oid, code, status) ==
  [kind |-> kind, oid |-> oid, code |-> code, status |-> status]

NoResponse == Response("none", 0, 0, None)

(* A request is taken by the first idle handler slot *)
Free(s) ==
  /\ slots[s].kind = "idle"
  /\ lock = 0
  /\ \A t \in Slots : t < s => slots[t].kind # "idle"

At(s, kind, pc) ==
  /\ lock \in {0, s}
  /\ slots[s].kind = kind
  /\ slots[s].pc = pc
  /\ slots[s].ops = NoOps

HistRoom(o) ==
  IF o \in DOMAIN payments THEN Len(payments[o].statusHistory) < MaxHist ELSE TRUE

RemoveAt(seq, i) == [j \in 1..(Len(seq) - 1) |-> IF j < i THEN seq[j] ELSE seq[j + 1]]

(* order.status = v on the handler's order object: seen by every holder of
   that object (in-memory store: the same object may be held by several
   handlers and by the store). *)
SameOrderObj(sl1, sl2) == sl1.ord.obj # 0 /\ sl1.ord.obj = sl2.ord.obj

SamePaymentObj(sl1, sl2) == sl1.pd.obj # 0 /\ sl1.pd.obj = sl2.pd.obj

SlotsAssignOrderStatus(sls, s, v) ==
  [t \in Slots |-> IF t = s \/ SameOrderObj(sls[s], sls[t])
                   THEN [sls[t] EXCEPT !.ord.status = v] ELSE sls[t]]

OrdersAssignOrderStatus(os, sl, v) ==
  [o \in DOMAIN os |-> IF sl.ord.obj # 0 /\ os[o].obj = sl.ord.obj
                       THEN [os[o] EXCEPT !.status = v] ELSE os[o]]

(* paymentDetails.status = "completed"; paymentDetails.transactionHash = h,
   applied only when paymentDetails is not null *)
SlotsAssignPaymentCompleted(sls, s, h) ==
  [t \in Slots |-> IF sls[s].pd.orderId # 0 /\ (t = s \/ SamePaymentObj(sls[s], sls[t]))
                   THEN [sls[t] EXCEPT !.pd.status = "completed", !.pd.transactionHash = h]
                   ELSE sls[t]]

PaymentsAssignPaymentCompleted(ps, sl, h) ==
  [o \in DOMAIN ps |-> IF sl.pd.orderId # 0 /\ sl.pd.obj # 0 /\ ps[o].obj = sl.pd.obj
                       THEN [ps[o] EXCEPT !.status = "completed", !.transactionHash = h]
                       ELSE ps[o]]

-----------------------------------------------------------------------------
(* One store call of handler s takes effect *)

StoreCallEffect(sl, i) ==
  LET c == sl.ops[i]
      rest == RemoveAt(sl.ops, i)
      same == [os |-> orders, ps |-> payments, sl |-> [sl EXCEPT !.ops = rest]]
      thrown == [same EXCEPT !.sl = [sl EXCEPT !.err = TRUE,
                                               !.ops = IF sl.par THEN rest ELSE NoOps]]
  IN CASE c.op = "getOrder" ->
            [same EXCEPT !.sl.ord = getOrder(orders, sl.oid)]
       [] c.op = "getPaymentStatus" ->
            [same EXCEPT !.sl.pd = getPaymentStatus(payments, sl.oid)]
       [] c.op = "scanOrdersByMerchantAddress" ->
            IF backend = "memory"
            THEN [same EXCEPT !.sl.found =
                    scanOrdersByMerchantAddress(orders, c.st, {"pending", "scanning"})]
            ELSE thrown
       [] c.op = "createOrder" ->
            IF backend = "memory"
            THEN [same EXCEPT !.os = memCreateOrder(orders, c.upd, FreshObj({}))]
            ELSE IF ddbCreateOrderThrows(orders, c.upd) THEN thrown
            ELSE [same EXCEPT !.os = ddbCreateOrder(orders, c.upd)]
       [] c.op = "upsertPaymentStatus" ->
            [same EXCEPT !.ps = upsertPaymentStatus(payments, c.upd, FreshObj({}))]
       [] c.op = "updateOrderStatus" ->
            IF backend = "memory"
            THEN IF memUpdateOrderStatusThrows(orders, sl.oid) THEN thrown
                 ELSE [same EXCEPT !.os =
                         memUpdateOrderStatus(orders, sl.oid, c.st, now, FreshObj({}))]
            ELSE [same EXCEPT !.os = ddbUpdateOrderStatus(orders, sl.oid, c.st, now)]
       [] c.op = "updatePaymentStatus" ->
            IF backend = "memory"
            THEN [same EXCEPT !.ps =
                    memUpdatePaymentStatus(payments, sl.oid, c.upd, now, FreshObj({}))]
            ELSE IF c.phase = 0
            THEN [same EXCEPT !.sl.ops =
                    [sl.ops EXCEPT ![i] =
                       [c EXCEPT !.phase = 1, !.t = now,
                                 !.hist = BuildStatusHistory(
                                            getPaymentStatus(payments, sl.oid), c.upd, now)]]]
            ELSE [same EXCEPT !.ps =
                    ddbUpdatePaymentStatus(payments, sl.oid, c.upd, c.hist, c.t)]

StoreOp(s) ==
  /\ lock \in {0, s}
  /\ slots[s].ops # NoOps
  /\ \E i \in (IF slots[s].par /\ backend = "dynamodb"
                THEN 1..Len(slots[s].ops) ELSE {1}) :
       /\ LET eff == StoreCallEffect(slots[s], i)
          IN /\ orders' = eff.os
             /\ payments' = eff.ps
             /\ slots' = [slots EXCEPT ![s] = eff.sl]
             /\ lock' = NextLock(s, eff.sl)
  /\ last' = NoResponse
  /\ UNCHANGED <<probe, backend, env, now, chain, mesh, linked>>

(* How a handler step ends: it goes on (sl), or it answers (resp) and is gone *)
Continue(s, sls, sl) ==
  /\ slots' = [sls EXCEPT ![s] = sl]
  /\ lock' = NextLock(s, sl)
  /\ last' = NoResponse

(* The handler returns its response: last is the response being sent *)
Answer(s, sls, resp) ==
  /\ slots' = [sls EXCEPT ![s] = [IdleSlot EXCEPT !.kind = "done", !.pc = "done"]]
  /\ lock' = IF backend = "memory" THEN s ELSE 0
  /\ last' = resp

(* A webhook handler returns before it has called the store: the request it
   turns away (signature header and raw body) is at hand until the response
   is out *)
AnswerWebhook(s, sls, resp, signature, rawBody) ==
  /\ slots' = [sls EXCEPT ![s] = [IdleSlot EXCEPT !.kind = "done", !.pc = "dismissed",
                                                   !.sig = signature, !.body = rawBody]]
  /\ lock' = IF backend = "memory" THEN s ELSE 0
  /\ last' = resp

(* The response is out and the handler is gone *)
(* Object identities carry no meaning beyond who shares an object: once no
   handler holds a record the stored objects are renumbered *)
Renumbered(store, first) ==
  [o \in DOMAIN store |-> [store[o] EXCEPT !.obj = IF backend = "memory" THEN first + o ELSE 0]]

Respond(s) ==
  /\ slots[s].kind = "done"
  /\ lock \in {0, s}
  /\ slots' = [slots EXCEPT ![s] = IdleSlot]
  /\ lock' = 0
  /\ last' = NoResponse
  /\ IF \A t \in Slots \ {s} : slots[t].kind = "idle"
     THEN /\ orders' = Renumbered(orders, 0)
          /\ payments' = Renumbered(payments, MaxOrders + 1)
     ELSE UNCHANGED <<orders, payments>>
  /\ UNCHANGED <<probe, backend, env, now, chain, mesh, linked>>

-----------------------------------------------------------------------------
(* The outside world *)

(* The instants the clock is looked at: creation, just after expiry, later *)
Instants == {0, ORDER_EXPIRATION_MINUTES + 1, MaxTime}

Tick ==
  /\ lock = 0
  /\ \E t \in Instants :
       /\ t > now
       /\ \A u \in Instants : u > now => t <= u
       /\ now' = t
  /\ last' = NoResponse
  /\ UNCHANGED <<probe, backend, env, orders, payments, chain, mesh, slots, lock, linked>>

(* A minute passes while orders can still be created *)
TickMinute ==
  /\ lock = 0
  /\ now + 1 + ORDER_EXPIRATION_MINUTES < MaxTime
  /\ now' = now + 1
  /\ last' = NoResponse
  /\ UNCHANGED <<probe, backend, env, orders, payments, chain, mesh, slots, lock, linked>>

(* A transfer to the merchant address is mined *)
ChainTransfer(k) ==
  /\ lock = 0
  /\ Len(chain) < MaxTransfers
  /\ \A i \in 1..Len(chain) : chain[i].id # k
  /\ chain' = Append(chain, [id |-> k, block |-> now])
  /\ last' = NoResponse
  /\ UNCHANGED <<probe, backend, env, now, orders, payments, mesh, slots, lock, linked>>

(* The transfer provider finishes a transfer it was executing *)
MeshResolve(id, st) ==
  /\ lock = 0
  /\ mesh[id] = "pending"
  /\ mesh' = [mesh EXCEPT ![id] = st]
  /\ last' = NoResponse
  /\ UNCHANGED <<probe, backend, env, now, orders, payments, chain, slots, lock, linked>>

-----------------------------------------------------------------------------
(* Blockchain log scan (lib/blockchain.ts) *)

Abs(x) == IF x < 0 THEN -x ELSE x

(* A matcher that refuses an amount exactly on the tolerance *)
WithinScanToleranceOpen(parsedAmount, expectedAmount) ==
  Abs(parsedAmount - expectedAmount) * 100 < expectedAmount * 5

(* the 1% variant of checkForTransfers:
   Math.abs(parsedAmount - expectedAmount) > expectedAmount * 0.01 fails *)
WithinStrictTolerance(parsedAmount, expectedAmount) ==
  ~(Abs(parsedAmount - expectedAmount) * 100 > expectedAmount * 1)

(* Math.abs(parsedAmount - expectedAmount) > expectedAmount * 0.05 fails *)
WithinScanTolerance(parsedAmount, expectedAmount) ==
  ~(Abs(parsedAmount - expectedAmount) * 100 > expectedAmount * 5)

(* eth_getLogs: the Transfer events of one token to the address, from startBlock on *)
getLogs(ch, networkId, symbol, merchantAddress, startBlock) ==
  SelectSeq(ch, LAMBDA e :
    /\ TRANSFERS[e.id].network = networkId
    /\ TRANSFERS[e.id].symbol = symbol
    /\ toLowerCase(TRANSFERS[e.id].to) = toLowerCase(merchantAddress)
    /\ e.block >= startBlock)

NotFound == [found |-> FALSE, tr |-> 0]

RECURSIVE checkTokens(_, _, _, _, _, _, _)
checkTokens(ch, merchantAddress, networkId, expectedAmount, startBlock, failTokens, i) ==
  LET symbols == TOKEN_CONTRACTS[networkId]
      logs == getLogs(ch, networkId, symbols[i], merchantAddress, startBlock)
      latestLog == logs[Len(logs)]
      next == checkTokens(ch, merchantAddress, networkId, expectedAmount, startBlock,
                          failTokens, i + 1)
  IN IF i > Len(symbols) THEN NotFound
     ELSE IF symbols[i] \in failTokens THEN next
     ELSE IF Len(logs) = 0 THEN next
     ELSE IF ~WithinScanTolerance(TRANSFERS[latestLog.id].amount, expectedAmount) THEN next
     ELSE [found |-> TRUE, tr |-> latestLog.id]

checkForTransfers(ch, merchantAddress, networkId, expectedAmount, currentBlock, rpcDown, failTokens) ==
  IF networkId \notin DOMAIN TOKEN_CONTRACTS THEN NotFound
  ELSE IF rpcDown THEN NotFound
  ELSE checkTokens(ch, merchantAddress, networkId, expectedAmount,
                   currentBlock - SCAN_WINDOW_BLOCKS, failTokens, 1)

(* A selection that takes the last network that found a transfer *)
RECURSIVE lastFound(_, _)
lastFound(results, i) ==
  LET j == Len(results) + 1 - i
  IN IF i > Len(results) THEN NotFound
     ELSE IF results[j].found THEN results[j]
     ELSE lastFound(results, i + 1)

RECURSIVE firstFound(_, _)
firstFound(results, i) ==
  IF i > Len(results) THEN NotFound
  ELSE IF results[i].found THEN results[i]
  ELSE firstFound(results, i + 1)

(* preferredNetworkId first when given, then the others in priority order *)
networksOf(preferredNetworkId) ==
  IF preferredNetworkId = None THEN networkPriority
  ELSE <<preferredNetworkId>> \o SelectSeq(networkPriority, LAMBDA n : n # preferredNetworkId)

checkAllNetworksForTransfers(ch, merchantAddress, expectedAmount, preferredNetworkId, currentBlock, downNetworks, failTokens) ==
  LET networks == networksOf(preferredNetworkId)
      results == [i \in 1..Len(networks) |->
                    checkForTransfers(ch, merchantAddress, networks[i], expectedAmount,
                                      currentBlock, networks[i] \in downNetworks,
                                      failTokens)]
  IN firstFound(results, 1)

(* RPC failures the scan may meet *)
DownInputs == SUBSET {"base", "polygon"}
FailTokenInputs == {{}, {"USDC"}}

-----------------------------------------------------------------------------
(* The transfer provider (Mesh) *)

MeshTransferIds == <<"mt1", "mt2", "mt3", "mt4">>

MeshTransferId(o) == MeshTransferIds[o]

-----------------------------------------------------------------------------
(* POST /api/create-order *)

NewOrderId ==
  CHOOSE o \in OrderIds \cup {MaxOrders + 2} :
    /\ o = MaxOrders + 2 \/ (o \notin DOMAIN orders
                             /\ \A s \in Slots : ~(slots[s].kind = "create" /\ slots[s].oid = o))
    /\ \A p \in OrderIds : p < o =>
         (p \in DOMAIN orders \/ \E s \in Slots : slots[s].kind = "create" /\ slots[s].oid = p)

(* A schema without the amount rules *)
AnyAmount(amount) == TRUE

(* z.number().positive().max(10000) *)
ValidAmount(amount) == amount > 0 /\ amount <= MAX_AMOUNT_CENTS

(* The order a request with this amount would create is among the first MaxOrders *)
Room(amount) == ValidAmount(amount) => NewOrderId <= MaxOrders

CreateOrderReq(s, amount, networkId) ==
  /\ Free(s)
  /\ IF ~ValidAmount(amount)
     THEN Answer(s, slots, Response("create", 0, 400, None))
     ELSE /\ NewOrderId \in OrderIds
          /\ now + ORDER_EXPIRATION_MINUTES < MaxTime
          /\ LET order == [orderId |-> NewOrderId, amount |-> amount, stablecoin |-> "USDC",
                           networkId |-> networkId, merchantWalletAddress |-> MERCHANT,
                           status |-> "pending", createdAt |-> now, updatedAt |-> now,
                           expiresAt |-> now + ORDER_EXPIRATION_MINUTES, obj |-> 0]
                 paymentStatus ==
                   [NullPayment EXCEPT !.orderId = NewOrderId, !.status = "pending",
                      !.updatedAt = now,
                      !.statusHistory = <<HistoryEntry("pending", now, "Order created")>>]
             IN Continue(s, slots,
                  [IdleSlot EXCEPT !.kind = "create", !.pc = "co_store", !.oid = NewOrderId,
                     !.ops = <<CallCreateOrder(order), CallUpsertPaymentStatus(paymentStatus)>>])
  /\ UNCHANGED <<probe, backend, env, now, orders, payments, chain, mesh, linked>>

CreateOrderDone(s) ==
  /\ At(s, "create", "co_store")
  /\ Answer(s, slots, Response("create", slots[s].oid, IF slots[s].err THEN 500 ELSE 201,
                               "pending"))
  /\ UNCHANGED <<probe, backend, env, now, orders, payments, chain, mesh, linked>>

-----------------------------------------------------------------------------
(* GET /api/check-status *)

Conclude(s, sls, out) ==
  IF out.answer THEN Answer(s, sls, out.resp) ELSE Continue(s, sls, out.sl)

GoOn(sl) == [answer |-> FALSE, sl |-> sl, resp |-> NoResponse]

Reply(resp) == [answer |-> TRUE, sl |-> IdleSlot, resp |-> resp]

(* A status check that gives up with a server error *)
CheckStatusGiveUp(sl) == Reply(Response("check", sl.oid, 500, None))

(* from "If there's an active Mesh transfer" on *)
CheckStatusMeshGate(sl) ==
  IF sl.pd.orderId # 0 /\ sl.pd.meshTransferId # None /\ sl.ord.status = "processing"
  THEN GoOn([sl EXCEPT !.pc = "cs_mesh"])
  ELSE Reply(Response("check", sl.oid, 200, sl.ord.status))

(* A status check that scans the chain whatever the status of the order *)
CheckStatusPollAlways(sl) == GoOn([sl EXCEPT !.pc = "cs_chain"])

(* from "If order is still pending or scanning" on *)
CheckStatusPollGate(sl) ==
  IF sl.ord.status \in {"pending", "scanning"}
  THEN GoOn([sl EXCEPT !.pc = "cs_chain"])
  ELSE CheckStatusMeshGate(sl)

CheckStatusReq(s, o) ==
  /\ Free(s)
  /\ o \in (DOMAIN orders) \cup {UnknownId}
  /\ Continue(s, slots,
       [IdleSlot EXCEPT !.kind = "check", !.pc = "cs_read", !.oid = o,
          !.ops = <<CallGetOrder, CallGetPaymentStatus>>, !.par = TRUE])
  /\ UNCHANGED <<probe, backend, env, now, orders, payments, chain, mesh, linked>>

CheckStatusAfterRead(s) ==
  /\ At(s, "check", "cs_read")
  /\ LET sl == slots[s]
     IN IF sl.ord.orderId = 0
        THEN Answer(s, slots, Response("check", sl.oid, 404, None))
        ELSE IF sl.ord.expiresAt < now /\ sl.ord.status = "pending"
        THEN Continue(s, slots,
               [sl EXCEPT !.pc = "cs_expire", !.par = FALSE,
                          !.ops = <<CallUpdateOrderStatus("expired")>>])
        ELSE Conclude(s, slots, CheckStatusPollGate(sl))
  /\ UNCHANGED <<probe, backend, env, now, orders, payments, chain, mesh, linked>>

CheckStatusAfterExpire(s) ==
  /\ At(s, "check", "cs_expire")
  /\ IF slots[s].err
     THEN /\ Answer(s, slots, Response("check", slots[s].oid, 500, None))
          /\ orders' = orders
     ELSE LET sls == SlotsAssignOrderStatus(slots, s, "expired")
          IN /\ orders' = OrdersAssignOrderStatus(orders, slots[s], "expired")
             /\ Conclude(s, sls, CheckStatusPollGate(sls[s]))
  /\ UNCHANGED <<probe, backend, env, now, payments, chain, mesh, linked>>

CheckStatusChainResult(s) ==
  /\ At(s, "check", "cs_chain")
  /\ \E downNetworks \in DownInputs, failTokens \in FailTokenInputs :
       LET sl == slots[s]
           blockchainResult ==
             IF sl.ord.networkId = "auto"
             THEN checkAllNetworksForTransfers(chain, sl.ord.merchantWalletAddress,
                                               sl.ord.amount, None, now, downNetworks,
                                               failTokens)
             ELSE checkForTransfers(chain, sl.ord.merchantWalletAddress, sl.ord.networkId,
                                    sl.ord.amount, now, sl.ord.networkId \in downNetworks,
                                    failTokens)
           transfer == TRANSFERS[blockchainResult.tr]
       IN IF blockchainResult.found
          THEN Continue(s, slots,
                 [sl EXCEPT !.pc = "cs_commit", !.par = TRUE, !.tr = blockchainResult.tr,
                    !.ops = << CallUpdateOrderStatus("completed"),
                               CallUpdatePaymentStatus(
                                 [status |-> "completed",
                                  transactionHash |-> transfer.hash,
                                  networkId |-> transfer.network,
                                  stablecoin |-> transfer.symbol,
                                  amount |-> transfer.amount]) >>])
          ELSE Conclude(s, slots, CheckStatusMeshGate(sl))
  /\ UNCHANGED <<probe, backend, env, now, orders, payments, chain, mesh, linked>>

CheckStatusAfterCommit(s) ==
  /\ At(s, "check", "cs_commit")
  /\ IF slots[s].err
     THEN /\ Conclude(s, slots, CheckStatusMeshGate(slots[s]))
          /\ UNCHANGED <<orders, payments>>
     ELSE LET h == TRANSFERS[slots[s].tr].hash
              sls == SlotsAssignPaymentCompleted(
                       SlotsAssignOrderStatus(slots, s, "completed"), s, h)
          IN /\ orders' = OrdersAssignOrderStatus(orders, slots[s], "completed")
             /\ payments' = PaymentsAssignPaymentCompleted(payments, slots[s], h)
             /\ Conclude(s, sls, CheckStatusMeshGate(sls[s]))
  /\ UNCHANGED <<probe, backend, env, now, chain, mesh, linked>>

(* getTransferStatus has answered (reachable) or thrown *)
(* A poll that takes every answer of the provider for a completion *)
newStatusAlwaysCompleted(transferStatus, status) == "completed"

(* let newStatus = order.status; completed and failed are taken over from the
   provider, every other provider status leaves it *)
newStatusOf(transferStatus, status) ==
  IF transferStatus = "completed" THEN "completed"
  ELSE IF transferStatus = "failed" THEN "failed"
  ELSE status

CheckStatusMeshResult(s, reachable) ==
  /\ At(s, "check", "cs_mesh")
  /\ LET sl == slots[s]
           transferStatus == mesh[sl.pd.meshTransferId]
           newStatus == newStatusOf(transferStatus, sl.ord.status)
       IN IF ~reachable
          THEN Answer(s, slots, Response("check", sl.oid, 200, sl.ord.status))
          ELSE IF newStatus # sl.ord.status
          THEN Continue(s, slots,
                 [sl EXCEPT !.pc = "cs_meshupd", !.par = FALSE, !.nst = newStatus,
                            !.mh = IF transferStatus = "completed" THEN MESH_TX.hash ELSE None,
                            !.ops = <<CallUpdateOrderStatus(newStatus)>>])
          ELSE Answer(s, slots, Response("check", sl.oid, 200, sl.ord.status))
  /\ UNCHANGED <<probe, backend, env, now, orders, payments, chain, mesh, linked>>

CheckStatusAfterMeshUpdate(s) ==
  /\ At(s, "check", "cs_meshupd")
  /\ LET sl == slots[s]
     IN IF sl.err
        THEN /\ Answer(s, slots, Response("check", sl.oid, 200, sl.ord.status))
             /\ UNCHANGED <<orders, payments>>
        ELSE LET sls1 == SlotsAssignOrderStatus(slots, s, sl.nst)
                 hit == sl.nst = "completed" /\ sl.mh # None
                 sls == IF hit THEN SlotsAssignPaymentCompleted(sls1, s, sl.mh) ELSE sls1
             IN /\ orders' = OrdersAssignOrderStatus(orders, sl, sl.nst)
                /\ payments' = IF hit THEN PaymentsAssignPaymentCompleted(payments, sl, sl.mh)
                               ELSE payments
                /\ Answer(s, sls, Response("check", sl.oid, 200, sl.nst))
  /\ UNCHANGED <<probe, backend, env, now, chain, mesh, linked>>

-----------------------------------------------------------------------------
(* POST /api/generate-qr *)

GenerateQRReq(s, o) ==
  /\ Free(s)
  /\ o \in (DOMAIN orders) \cup {UnknownId}
  /\ HistRoom(o)
  /\ Continue(s, slots,
       [IdleSlot EXCEPT !.kind = "qr", !.pc = "gq_read", !.oid = o, !.ops = <<CallGetOrder>>])
  /\ UNCHANGED <<probe, backend, env, now, orders, payments, chain, mesh, linked>>

GenerateQRAfterRead(s) ==
  /\ At(s, "qr", "gq_read")
  /\ LET sl == slots[s]
     IN IF sl.ord.orderId = 0
        THEN Answer(s, slots, Response("qr", sl.oid, 404, None))
        ELSE IF sl.ord.expiresAt < now
        THEN Continue(s, slots,
               [sl EXCEPT !.pc = "gq_expire", !.ops = <<CallUpdateOrderStatus("expired")>>])
        ELSE IF sl.ord.status # "pending" /\ sl.ord.status # "scanning"
        THEN Answer(s, slots, Response("qr", sl.oid, 400, sl.ord.status))
        ELSE Continue(s, slots, [sl EXCEPT !.pc = "gq_link"])
  /\ UNCHANGED <<probe, backend, env, now, orders, payments, chain, mesh, linked>>

GenerateQRAfterExpire(s) ==
  /\ At(s, "qr", "gq_expire")
  /\ Answer(s, slots, Response("qr", slots[s].oid, IF slots[s].err THEN 500 ELSE 400, "expired"))
  /\ UNCHANGED <<probe, backend, env, now, orders, payments, chain, mesh, linked>>

(* generatePaymentQR and generateLinkToken have answered, or one of them threw *)
GenerateQRLinkResult(s) ==
  /\ At(s, "qr", "gq_link")
  /\ \E ok \in BOOLEAN :
       IF ok
       THEN /\ Continue(s, slots,
                 [slots[s] EXCEPT !.pc = "gq_update",
                    !.ops = <<CallUpdatePaymentStatus([status |-> "pending"])>>])
            /\ linked' = linked \cup {slots[s].oid}
       ELSE /\ Answer(s, slots, Response("qr", slots[s].oid, 500, None))
            /\ linked' = linked
  /\ UNCHANGED <<probe, backend, env, now, orders, payments, chain, mesh>>

GenerateQRDone(s) ==
  /\ At(s, "qr", "gq_update")
  /\ Answer(s, slots, Response("qr", slots[s].oid, IF slots[s].err THEN 500 ELSE 200,
                               slots[s].ord.status))
  /\ UNCHANGED <<probe, backend, env, now, orders, payments, chain, mesh, linked>>

-----------------------------------------------------------------------------
(* POST /api/initiate-payment *)

validStatuses == {"pending", "scanning", "authorizing"}

(* What executeTransfer can answer; "error" is previewTransfer or
   executeTransfer throwing, the only outcome for a caller whose authToken
   does not come from a link token issued for the order *)
TransferOutcomes(o) ==
  IF o \in linked THEN {"error", "completed", "pending", "failed"} ELSE {"error"}

InitiatePaymentReq(s, o) ==
  /\ Free(s)
  /\ o \in (DOMAIN orders) \cup {UnknownId}
  /\ HistRoom(o)
  /\ Continue(s, slots,
       [IdleSlot EXCEPT !.kind = "pay", !.pc = "ip_read", !.oid = o, !.ops = <<CallGetOrder>>])
  /\ UNCHANGED <<probe, backend, env, now, orders, payments, chain, mesh, linked>>

InitiatePaymentAfterRead(s) ==
  /\ At(s, "pay", "ip_read")
  /\ LET sl == slots[s]
     IN IF sl.ord.orderId = 0
        THEN Answer(s, slots, Response("pay", sl.oid, 404, None))
        ELSE IF sl.ord.expiresAt < now
        THEN Continue(s, slots,
               [sl EXCEPT !.pc = "ip_expire", !.ops = <<CallUpdateOrderStatus("expired")>>])
        ELSE IF sl.ord.status \notin validStatuses
        THEN Answer(s, slots, Response("pay", sl.oid, 400, sl.ord.status))
        ELSE Continue(s, slots,
               [sl EXCEPT !.pc = "ip_processing",
                  !.ops = << CallUpdateOrderStatus("processing"),
                             CallUpdatePaymentStatus([status |-> "processing"]) >>])
  /\ UNCHANGED <<probe, backend, env, now, orders, payments, chain, mesh, linked>>

InitiatePaymentAfterExpire(s) ==
  /\ At(s, "pay", "ip_expire")
  /\ Answer(s, slots, Response("pay", slots[s].oid, IF slots[s].err THEN 500 ELSE 400, "expired"))
  /\ UNCHANGED <<probe, backend, env, now, orders, payments, chain, mesh, linked>>

InitiatePaymentAfterProcessing(s) ==
  /\ At(s, "pay", "ip_processing")
  /\ IF slots[s].err
     THEN Answer(s, slots, Response("pay", slots[s].oid, 500, None))
     ELSE Continue(s, slots, [slots[s] EXCEPT !.pc = "ip_transfer"])
  /\ UNCHANGED <<probe, backend, env, now, orders, payments, chain, mesh, linked>>

InitiatePaymentTransferResult(s) ==
  /\ At(s, "pay", "ip_transfer")
  /\ \E outcome \in TransferOutcomes(slots[s].oid) :
       LET sl == slots[s]
           transferId == MeshTransferId(sl.oid)
       IN IF outcome = "error"
          THEN /\ Answer(s, slots, Response("pay", sl.oid, 500, None))
               /\ mesh' = mesh
          ELSE /\ mesh' = [mesh EXCEPT ![transferId] = outcome]
               /\ Continue(s, slots,
                    [sl EXCEPT !.pc = "ip_result",
                       !.ops =
                         IF outcome = "completed"
                         THEN << CallUpdateOrderStatus("completed"),
                                 CallUpdatePaymentStatus(
                                   [status |-> "completed",
                                    transactionHash |-> MESH_TX.hash,
                                    meshTransferId |-> transferId,
                                    senderAddress |-> MESH_TX.from,
                                    amountReceived |-> MESH_TX.amount]) >>
                         ELSE IF outcome = "pending"
                         THEN << CallUpdatePaymentStatus(
                                   [status |-> "processing", meshTransferId |-> transferId]) >>
                         ELSE << CallUpdateOrderStatus("failed"),
                                 CallUpdatePaymentStatus(
                                   [status |-> "failed", meshTransferId |-> transferId,
                                    errorMessage |-> "Transfer failed"]) >>])
  /\ UNCHANGED <<probe, backend, env, now, orders, payments, chain, linked>>

InitiatePaymentDone(s) ==
  /\ At(s, "pay", "ip_result")
  /\ Answer(s, slots, Response("pay", slots[s].oid, IF slots[s].err THEN 500 ELSE 200, None))
  /\ UNCHANGED <<probe, backend, env, now, orders, payments, chain, mesh, linked>>

-----------------------------------------------------------------------------
(* Webhook signatures *)

MESH_WEBHOOK_SECRET == "mesh-secret"
ALCHEMY_WEBHOOK_SIGNING_KEY == "alchemy-key"

(* HMAC-SHA256 of a body under a key: equal only for equal key and body *)
hmac(key, body) == <<key, body>>

(* The header is absent (<<>>), signed with the shared secret, or forged *)
SignatureInputs(key, body) == {<<>>, hmac(key, body), hmac("forged", body)}

(* crypto.timingSafeEqual(signature, hmac(payload)); false when it throws *)
verifySignature(payload, signature, secret) == signature = hmac(secret, payload)

(* A verification that lets every signature through *)
AcceptAnySignature(body, signature, signingKey) == TRUE

verifyAlchemySignature(body, signature, signingKey) == signature = hmac(signingKey, body)

(* A parser that returns for every body *)
ParsesAnything(rawBody) == TRUE

(* JSON.parse(rawBody) returns rather than throws *)
MeshBodyParses(rawBody) == rawBody.TransferStatus # "{"

AlchemyBodyParses(rawBody) == rawBody # 0

-----------------------------------------------------------------------------
(* POST /api/webhooks/mesh *)

statusMap == [pending |-> "processing", succeeded |-> "completed", failed |-> "failed"]

(* The payload the provider sends for a transfer of order o; the optional
   fields come with the succeeded event only *)
MeshPayload(o, transferStatus, hasUserId) ==
  [ UserId |-> IF hasUserId THEN o ELSE NoNum,
    TransferStatus |-> transferStatus,
    TxHash |-> IF transferStatus = "succeeded" THEN MESH_TX.hash ELSE None,
    Chain |-> IF transferStatus = "succeeded" THEN MESH_TX.chain ELSE None,
    Token |-> IF transferStatus = "succeeded" THEN MESH_TX.token ELSE None,
    DestinationAmount |-> IF transferStatus = "succeeded" THEN MESH_TX.amount ELSE NoNum ]

MeshWebhookReq(s, o, transferStatus, hasUserId, parses) ==
  /\ Free(s)
  /\ HistRoom(o)
  /\ LET payload == MeshPayload(o, transferStatus, hasUserId)
         rawBody == IF parses THEN payload ELSE [payload EXCEPT !.TransferStatus = "{"]
         newStatus == IF payload.TransferStatus \in DOMAIN statusMap
                      THEN statusMap[payload.TransferStatus] ELSE "processing"
     IN \E signature \in SignatureInputs(MESH_WEBHOOK_SECRET, rawBody) :
          IF /\ env.MESH_WEBHOOK_SECRET
             /\ signature # <<>>
             /\ ~verifySignature(rawBody, signature, MESH_WEBHOOK_SECRET)
          THEN AnswerWebhook(s, slots, Response("mesh", o, 401, None), signature, rawBody)
          ELSE IF ~MeshBodyParses(rawBody)
          THEN AnswerWebhook(s, slots, Response("mesh", o, 200, None), signature, rawBody)
          ELSE IF payload.UserId = NoNum
          THEN AnswerWebhook(s, slots, Response("mesh", o, 200, None), signature, rawBody)
          ELSE Continue(s, slots,
                 [IdleSlot EXCEPT !.kind = "mesh", !.pc = "mw_update", !.oid = payload.UserId,
                    !.sig = signature, !.body = rawBody,
                    !.ops = << CallUpdatePaymentStatus(
                                 [status |-> newStatus,
                                  transactionHash |-> payload.TxHash,
                                  networkId |-> toLowerCase(payload.Chain),
                                  stablecoin |-> payload.Token,
                                  amount |-> payload.DestinationAmount]) >>])
  /\ UNCHANGED <<probe, backend, env, now, orders, payments, chain, mesh, linked>>

MeshWebhookDone(s) ==
  /\ At(s, "mesh", "mw_update")
  /\ Answer(s, slots, Response("mesh", slots[s].oid, 200, None))
  /\ UNCHANGED <<probe, backend, env, now, orders, payments, chain, mesh, linked>>

-----------------------------------------------------------------------------
(* POST /api/webhooks/alchemy *)

(* A matcher that takes an order whatever the amount of the transfer *)
AnyAmountMatches(orderAmount, amount) == TRUE

(* percentDiff <= tolerance, with diff / order.amount <= 0.05 *)
WithinWebhookTolerance(orderAmount, amount) ==
  Abs(orderAmount - amount) * 100 <= 5 * orderAmount

(* A matcher that takes the last candidate within tolerance *)
RECURSIVE findLast(_, _, _)
findLast(pendingOrders, amount, i) ==
  LET j == Len(pendingOrders) + 1 - i
  IN IF i > Len(pendingOrders) THEN NullOrder
     ELSE IF Abs(pendingOrders[j].amount - amount) * 100 <= 5 * pendingOrders[j].amount
     THEN pendingOrders[j]
     ELSE findLast(pendingOrders, amount, i + 1)

RECURSIVE find(_, _, _)
find(pendingOrders, amount, i) ==
  IF i > Len(pendingOrders) THEN NullOrder
  ELSE IF WithinWebhookTolerance(pendingOrders[i].amount, amount) THEN pendingOrders[i]
  ELSE find(pendingOrders, amount, i + 1)

AlchemyWebhookReq(s, k, parses) ==
  /\ Free(s)
  /\ \A o \in DOMAIN payments : HistRoom(o)
  /\ LET activity == TRANSFERS[k]
         rawBody == IF parses THEN k ELSE 0
     IN \E signature \in SignatureInputs(ALCHEMY_WEBHOOK_SIGNING_KEY, rawBody) :
          /\ signature = hmac(ALCHEMY_WEBHOOK_SIGNING_KEY, rawBody) =>
               parses /\ \E i \in 1..Len(chain) : chain[i].id = k
          /\ IF env.ALCHEMY_WEBHOOK_SIGNING_KEY /\ signature = <<>>
             THEN AnswerWebhook(s, slots, Response("alchemy", 0, 401, None), signature, rawBody)
             ELSE IF /\ env.ALCHEMY_WEBHOOK_SIGNING_KEY
                     /\ ~verifyAlchemySignature(rawBody, signature, ALCHEMY_WEBHOOK_SIGNING_KEY)
             THEN AnswerWebhook(s, slots, Response("alchemy", 0, 401, None), signature, rawBody)
             ELSE IF ~AlchemyBodyParses(rawBody)
             THEN AnswerWebhook(s, slots, Response("alchemy", 0, 200, None), signature, rawBody)
             ELSE IF activity.category # "token" /\ activity.category # "erc20"
             THEN AnswerWebhook(s, slots, Response("alchemy", 0, 200, None), signature, rawBody)
             ELSE IF activity.symbol \notin STABLECOINS
             THEN AnswerWebhook(s, slots, Response("alchemy", 0, 200, None), signature, rawBody)
             ELSE Continue(s, slots,
                    [IdleSlot EXCEPT !.kind = "alchemy", !.pc = "aw_scan", !.tr = k,
                       !.sig = signature, !.body = rawBody,
                       !.ops = <<CallScanOrders(toLowerCase(activity.to))>>])
  /\ UNCHANGED <<probe, backend, env, now, orders, payments, chain, mesh, linked>>

AlchemyWebhookAfterScan(s) ==
  /\ At(s, "alchemy", "aw_scan")
  /\ LET sl == slots[s]
         activity == TRANSFERS[sl.tr]
         pendingOrders == sl.found
         matchingOrder == find(pendingOrders, activity.amount, 1)
         networkId == IF activity.alchemy \in DOMAIN ALCHEMY_NETWORK_MAP
                      THEN ALCHEMY_NETWORK_MAP[activity.alchemy]
                      ELSE toLowerCase(activity.alchemy)
     IN IF sl.err \/ Len(pendingOrders) = 0 \/ matchingOrder.orderId = 0
        THEN Answer(s, slots, Response("alchemy", 0, 200, None))
        ELSE Continue(s, slots,
               [sl EXCEPT !.pc = "aw_commit", !.oid = matchingOrder.orderId, !.par = TRUE,
                  !.found = <<>>,
                  !.ops = << CallUpdateOrderStatus("completed"),
                             CallUpdatePaymentStatus(
                               [status |-> "completed",
                                transactionHash |-> activity.hash,
                                networkId |-> networkId,
                                stablecoin |-> activity.symbol,
                                amount |-> activity.amount,
                                senderAddress |-> activity.from]) >>])
  /\ UNCHANGED <<probe, backend, env, now, orders, payments, chain, mesh, linked>>

AlchemyWebhookDone(s) ==
  /\ At(s, "alchemy", "aw_commit")
  /\ Answer(s, slots, Response("alchemy", slots[s].oid, 200, None))
  /\ UNCHANGED <<probe, backend, env, now, orders, payments, chain, mesh, linked>>

-----------------------------------------------------------------------------
(* A function of the program applied on its own: probe holds the arguments
   and what the function returned *)
NoProbe == [fn |-> "none"]

(* Deployments: the webhook secrets are environment variables, set or unset *)
Deployments ==
  { [MESH_WEBHOOK_SECRET |-> TRUE, ALCHEMY_WEBHOOK_SIGNING_KEY |-> TRUE],
    [MESH_WEBHOOK_SECRET |-> FALSE, ALCHEMY_WEBHOOK_SIGNING_KEY |-> FALSE] }

InitStore(b) ==
  /\ backend = b
  /\ env \in Deployments
  /\ now = 0
  /\ orders = [o \in {} |-> NullOrder]
  /\ payments = [o \in {} |-> NullPayment]
  /\ chain = <<>>
  /\ mesh = [id \in {MeshTransferId(o) : o \in OrderIds} |-> "none"]
  /\ linked = {}
  /\ slots = [s \in Slots |-> IdleSlot]
  /\ lock = 0
  /\ last = NoResponse
  /\ probe = NoProbe

Next ==
  \/ Tick
  \/ \E k \in TransferIds : ChainTransfer(k)
  \/ \E s \in Handlers : StoreOp(s)
  \/ \E s \in Handlers : Respond(s)
  \/ \E s \in Handlers, a \in AmountInputs, n \in NetworkInputs :
       Room(a) /\ CreateOrderReq(s, a, n)
  \/ \E s \in Handlers : CreateOrderDone(s)
  \/ \E s \in Handlers, o \in OrderIds \cup {UnknownId} : CheckStatusReq(s, o)
  \/ \E s \in Handlers : CheckStatusAfterRead(s)
  \/ \E s \in Handlers : CheckStatusAfterExpire(s)
  \/ \E s \in Handlers : CheckStatusChainResult(s)
  \/ \E s \in Handlers : CheckStatusAfterCommit(s)
  \/ \E s \in Handlers, reachable \in BOOLEAN : CheckStatusMeshResult(s, reachable)
  \/ \E s \in Handlers : CheckStatusAfterMeshUpdate(s)
  \/ \E s \in Handlers, o \in OrderIds \cup {UnknownId} : GenerateQRReq(s, o)
  \/ \E s \in Handlers : GenerateQRAfterRead(s)
  \/ \E s \in Handlers : GenerateQRAfterExpire(s)
  \/ \E s \in Handlers : GenerateQRLinkResult(s)
  \/ \E s \in Handlers : GenerateQRDone(s)
  \/ \E s \in Handlers, o \in OrderIds \cup {UnknownId} : InitiatePaymentReq(s, o)
  \/ \E s \in Handlers : InitiatePaymentAfterRead(s)
  \/ \E s \in Handlers : InitiatePaymentAfterExpire(s)
  \/ \E s \in Handlers : InitiatePaymentAfterProcessing(s)
  \/ \E s \in Handlers : InitiatePaymentTransferResult(s)
  \/ \E s \in Handlers : InitiatePaymentDone(s)
  \/ \E id \in DOMAIN mesh, st \in {"completed", "failed"} : MeshResolve(id, st)
  \/ \E s \in Handlers, o \in OrderIds, st \in MeshStatusInputs,
        hasUserId \in BOOLEAN, parses \in BOOLEAN :
       o \in DOMAIN orders /\ MeshWebhookReq(s, o, st, hasUserId, parses)
  \/ \E s \in Handlers : MeshWebhookDone(s)
  \/ \E s \in Handlers, k \in TransferIds, parses \in BOOLEAN : AlchemyWebhookReq(s, k, parses)
  \/ \E s \in Handlers : AlchemyWebhookAfterScan(s)
  \/ \E s \in Handlers : AlchemyWebhookDone(s)

(* The amount test of the tolerance matchers, on its own, for expected
   amounts of 1.00, 5.00 and 10.00 and observed amounts around them *)
ExpectedInputs == {100, 500, 1000}

ApplyTolerance(expectedAmount, observed) ==
  /\ observed > 0
  /\ probe' = [fn |-> "tolerance", expected |-> expectedAmount, observed |-> observed,
                strict |-> WithinStrictTolerance(observed, expectedAmount),
                scan |-> WithinScanTolerance(observed, expectedAmount),
                webhook |-> WithinWebhookTolerance(expectedAmount, observed)]
  /\ UNCHANGED <<backend, env, now, orders, payments, chain, mesh, linked, slots, lock, last>>

NextTolerance ==
  \E e \in ExpectedInputs, d \in (-MaxDelta)..MaxDelta : ApplyTolerance(e, e + d)

(* The scanner applied on its own, once, to the logs of a chain: up to MaxLogs
   transfers to the merchant address, mined in consecutive blocks, scanned at
   a block where they are inside the window and at one where they are not *)
LogInputs ==
  { [i \in 1..Len(ids) |-> [id |-> ids[i], block |-> i]] :
      ids \in { q \in UNION { [1..n -> ActivityIds] : n \in 0..MaxLogs } :
                  \A i, j \in 1..Len(q) : i # j => q[i] # q[j] } }

ApplyScan(logs, networkId, expectedAmount, currentBlock) ==
  /\ probe = NoProbe
  /\ probe' = [fn |-> "scan", logs |-> logs, networkId |-> networkId,
               expected |-> expectedAmount, currentBlock |-> currentBlock,
               result |-> checkForTransfers(logs, MERCHANT, networkId, expectedAmount,
                                            currentBlock, FALSE, {})]
  /\ UNCHANGED <<backend, env, now, orders, payments, chain, mesh, linked, slots, lock, last>>

ApplyScanAll(logs, expectedAmount, preferredNetworkId, currentBlock, downNetworks, failTokens) ==
  /\ probe = NoProbe
  /\ probe' = [fn |-> "scanAll", logs |-> logs, preferred |-> preferredNetworkId,
               expected |-> expectedAmount, currentBlock |-> currentBlock,
               down |-> downNetworks, failTokens |-> failTokens,
               result |-> checkAllNetworksForTransfers(logs, MERCHANT, expectedAmount,
                            preferredNetworkId, currentBlock, downNetworks, failTokens)]
  /\ UNCHANGED <<backend, env, now, orders, payments, chain, mesh, linked, slots, lock, last>>

NextScan ==
  \/ \E logs \in LogInputs, networkId \in {"base", "polygon"}, e \in ExpectedInputs,
        currentBlock \in {MaxLogs, SCAN_WINDOW_BLOCKS + MaxLogs + 1} :
       ApplyScan(logs, networkId, e, currentBlock)
  \/ \E logs \in LogInputs, e \in ExpectedInputs, preferred \in {None, "base", "polygon"},
        currentBlock \in {MaxLogs, SCAN_WINDOW_BLOCKS + MaxLogs + 1},
        downNetworks \in DownInputs, failTokens \in FailTokenInputs :
       ApplyScanAll(logs, e, preferred, currentBlock, downNetworks, failTokens)

(* The two implementations of the store side by side: the same calls, one
   after the other, are made on an in-memory store and on a DynamoDB store
   that both start empty; probe holds the two stores and what the last call
   returned from each *)
memStoreCall(st, c, t) ==
  CASE c.op = "createOrder" ->
         [os |-> memCreateOrder(st.os, c.order, 0), ps |-> st.ps, threw |-> FALSE,
          value |-> c.order]
    [] c.op = "getOrder" ->
         [os |-> st.os, ps |-> st.ps, threw |-> FALSE, value |-> getOrder(st.os, c.id)]
    [] c.op = "updateOrderStatus" ->
         IF memUpdateOrderStatusThrows(st.os, c.id)
         THEN [os |-> st.os, ps |-> st.ps, threw |-> TRUE, value |-> NullOrder]
         ELSE LET os == memUpdateOrderStatus(st.os, c.id, c.status, t, 0)
              IN [os |-> os, ps |-> st.ps, threw |-> FALSE, value |-> os[c.id]]
    [] c.op = "upsertPaymentStatus" ->
         [os |-> st.os, ps |-> upsertPaymentStatus(st.ps, c.record, 0), threw |-> FALSE,
          value |-> c.record]
    [] c.op = "updatePaymentStatus" ->
         LET ps == memUpdatePaymentStatus(st.ps, c.id, c.updates, t, 0)
         IN [os |-> st.os, ps |-> ps, threw |-> FALSE, value |-> ps[c.id]]

ddbStoreCall(st, c, t) ==
  CASE c.op = "createOrder" ->
         IF ddbCreateOrderThrows(st.os, c.order)
         THEN [os |-> st.os, ps |-> st.ps, threw |-> TRUE, value |-> NullOrder]
         ELSE [os |-> ddbCreateOrder(st.os, c.order), ps |-> st.ps, threw |-> FALSE,
               value |-> c.order]
    [] c.op = "getOrder" ->
         [os |-> st.os, ps |-> st.ps, threw |-> FALSE, value |-> getOrder(st.os, c.id)]
    [] c.op = "updateOrderStatus" ->
         LET os == ddbUpdateOrderStatus(st.os, c.id, c.status, t)
         IN [os |-> os, ps |-> st.ps, threw |-> FALSE, value |-> os[c.id]]
    [] c.op = "upsertPaymentStatus" ->
         [os |-> st.os, ps |-> upsertPaymentStatus(st.ps, c.record, 0), threw |-> FALSE,
          value |-> c.record]
    [] c.op = "updatePaymentStatus" ->
         LET history == BuildStatusHistory(getPaymentStatus(st.ps, c.id), c.updates, t)
             ps == ddbUpdatePaymentStatus(st.ps, c.id, c.updates, history, t)
         IN [os |-> st.os, ps |-> ps, threw |-> FALSE, value |-> ps[c.id]]

(* One call of the store API, its arguments built from an order id and one
   further input: the network of a new order, the new status of an order, or
   which update of a payment record is made *)
StoreCallOf(op, id, arg) ==
  CASE op = "createOrder" ->
         [op |-> op,
          order |-> [orderId |-> id, amount |-> 500, stablecoin |-> "USDC",
                     networkId |-> arg, merchantWalletAddress |-> MERCHANT,
                     status |-> "pending", createdAt |-> 0, updatedAt |-> 0,
                     expiresAt |-> ORDER_EXPIRATION_MINUTES, obj |-> 0]]
    [] op = "getOrder" -> [op |-> op, id |-> id]
    [] op = "updateOrderStatus" -> [op |-> op, id |-> id, status |-> arg]
    [] op = "upsertPaymentStatus" ->
         [op |-> op,
          record |-> [NullPayment EXCEPT !.orderId = id, !.status = "pending",
                        !.updatedAt = 0,
                        !.statusHistory = <<HistoryEntry("pending", 0, "Order created")>>]]
    [] op = "updatePaymentStatus" ->
         [op |-> op, id |-> id,
          updates |-> CASE arg = "status" -> [status |-> "processing"]
                        [] arg = "hash" -> [status |-> "completed", transactionHash |-> "0xa1"]
                        [] arg = "undefined" ->
                             [status |-> "processing", transactionHash |-> None]]

ApplyStoreCall(op, id, arg) ==
  /\ probe.fn \in {"none", "stores"}
  /\ LET empty == [os |-> [o \in {} |-> NullOrder], ps |-> [o \in {} |-> NullPayment]]
         cur == IF probe.fn = "none" THEN [mem |-> empty, ddb |-> empty, n |-> 0] ELSE probe
         t == cur.n + 1
         c == StoreCallOf(op, id, arg)
         m == memStoreCall(cur.mem, c, t)
         d == ddbStoreCall(cur.ddb, c, t)
     IN /\ cur.n < MaxCalls
        /\ probe' = [fn |-> "stores", n |-> cur.n + 1, call |-> c,
                     mem |-> [os |-> m.os, ps |-> m.ps],
                     ddb |-> [os |-> d.os, ps |-> d.ps],
                     memResult |-> [threw |-> m.threw, value |-> m.value],
                     ddbResult |-> [threw |-> d.threw, value |-> d.value]]
  /\ UNCHANGED <<backend, env, now, orders, payments, chain, mesh, linked, slots, lock, last>>

NextStores ==
  \/ \E id \in OrderIds, n \in NetworkInputs : ApplyStoreCall("createOrder", id, n)
  \/ \E id \in OrderIds : ApplyStoreCall("getOrder", id, None)
  \/ \E id \in OrderIds, status \in {"processing", "completed", "expired"} :
       ApplyStoreCall("updateOrderStatus", id, status)
  \/ \E id \in OrderIds : ApplyStoreCall("upsertPaymentStatus", id, None)
  \/ \E id \in OrderIds, updates \in {"status", "hash", "undefined"} :
       ApplyStoreCall("updatePaymentStatus", id, updates)

(* The program as deployed: the in-memory store *)
Init == InitStore("memory")

Spec == Init /\ [][Next]_vars

(* The end-to-end scenario: an order is created, the payment request
   (generate-qr) may be made, the client polls the status, transfers are mined
   and time passes; no webhook is delivered and no provider transfer started *)
NextEndToEnd ==
  \/ Tick
  \/ \E k \in TransferIds : ChainTransfer(k)
  \/ \E s \in Handlers : StoreOp(s)
  \/ \E s \in Handlers : Respond(s)
  \/ \E s \in Handlers, a \in AmountInputs, n \in NetworkInputs :
       Room(a) /\ CreateOrderReq(s, a, n)
  \/ \E s \in Handlers : CreateOrderDone(s)
  \/ \E s \in Handlers, o \in OrderIds \cup {UnknownId} : CheckStatusReq(s, o)
  \/ \E s \in Handlers : CheckStatusAfterRead(s)
  \/ \E s \in Handlers : CheckStatusAfterExpire(s)
  \/ \E s \in Handlers : CheckStatusChainResult(s)
  \/ \E s \in Handlers : CheckStatusAfterCommit(s)
  \/ \E s \in Handlers, o \in OrderIds \cup {UnknownId} : GenerateQRReq(s, o)
  \/ \E s \in Handlers : GenerateQRAfterRead(s)
  \/ \E s \in Handlers : GenerateQRAfterExpire(s)
  \/ \E s \in Handlers : GenerateQRLinkResult(s)
  \/ \E s \in Handlers : GenerateQRDone(s)

SpecEndToEnd == Init /\ [][NextEndToEnd]_vars

(* Order creation with amounts on both sides of either bound, and the status
   checks that read what was created *)
NextCreate ==
  \/ Tick
  \/ \E s \in Handlers : StoreOp(s)
  \/ \E s \in Handlers : Respond(s)
  \/ \E s \in Handlers, a \in AmountBoundaryInputs, n \in NetworkInputs :
       Room(a) /\ CreateOrderReq(s, a, n)
  \/ \E s \in Handlers : CreateOrderDone(s)
  \/ \E s \in Handlers, o \in OrderIds \cup {UnknownId} : CheckStatusReq(s, o)
  \/ \E s \in Handlers : CheckStatusAfterRead(s)
  \/ \E s \in Handlers : CheckStatusAfterExpire(s)
  \/ \E s \in Handlers : CheckStatusChainResult(s)

SpecCreate == Init /\ [][NextCreate]_vars

(* The matching scenario: orders of 5.00 and 5.20 are created a minute apart,
   transfers are mined and the chain indexer reports them *)
MatchAmountInputs == {500, 520}

NextMatch ==
  \/ TickMinute
  \/ \E k \in TransferIds : ChainTransfer(k)
  \/ \E s \in Handlers : StoreOp(s)
  \/ \E s \in Handlers : Respond(s)
  \/ \E s \in Handlers, a \in MatchAmountInputs, n \in NetworkInputs : CreateOrderReq(s, a, n)
  \/ \E s \in Handlers : CreateOrderDone(s)
  \/ \E s \in Handlers, k \in TransferIds, parses \in BOOLEAN : AlchemyWebhookReq(s, k, parses)
  \/ \E s \in Handlers : AlchemyWebhookAfterScan(s)
  \/ \E s \in Handlers : AlchemyWebhookDone(s)

SpecMatch == Init /\ [][NextMatch]_vars

(* A transfer reaches the merchant address, a minute passes, an order is
   created and its status is polled *)
NextStale ==
  \/ TickMinute
  \/ \E k \in TransferIds : ChainTransfer(k)
  \/ \E s \in Handlers : StoreOp(s)
  \/ \E s \in Handlers : Respond(s)
  \/ \E s \in Handlers, a \in AmountInputs, n \in NetworkInputs :
       Room(a) /\ CreateOrderReq(s, a, n)
  \/ \E s \in Handlers : CreateOrderDone(s)
  \/ \E s \in Handlers, o \in OrderIds \cup {UnknownId} : CheckStatusReq(s, o)
  \/ \E s \in Handlers : CheckStatusAfterRead(s)
  \/ \E s \in Handlers : CheckStatusChainResult(s)
  \/ \E s \in Handlers : CheckStatusAfterCommit(s)

SpecStale == Init /\ [][NextStale]_vars

(* Transfer-provider webhooks naming the order that exists and an order id
   that no order has or will have *)
NextUnknown ==
  \/ \E s \in Handlers : StoreOp(s)
  \/ \E s \in Handlers : Respond(s)
  \/ \E s \in Handlers, a \in AmountInputs, n \in NetworkInputs :
       Room(a) /\ CreateOrderReq(s, a, n)
  \/ \E s \in Handlers : CreateOrderDone(s)
  \/ \E s \in Handlers, o \in OrderIds, st \in MeshStatusInputs :
       /\ IF o \in DOMAIN orders THEN TRUE ELSE o > MaxOrders
       /\ MeshWebhookReq(s, o, st, TRUE, TRUE)
  \/ \E s \in Handlers : MeshWebhookDone(s)

SpecUnknown == Init /\ [][NextUnknown]_vars

(* Every kind of activity on the merchant address delivered by the
   chain-indexer webhook, with and without an open order *)
NextDiscard ==
  \/ \E k \in ActivityIds : ChainTransfer(k)
  \/ \E s \in Handlers : StoreOp(s)
  \/ \E s \in Handlers : Respond(s)
  \/ \E s \in Handlers, a \in AmountInputs, n \in NetworkInputs :
       Room(a) /\ CreateOrderReq(s, a, n)
  \/ \E s \in Handlers : CreateOrderDone(s)
  \/ \E s \in Handlers, k \in ActivityIds, parses \in BOOLEAN : AlchemyWebhookReq(s, k, parses)
  \/ \E s \in Handlers : AlchemyWebhookAfterScan(s)
  \/ \E s \in Handlers : AlchemyWebhookDone(s)

SpecDiscard == Init /\ [][NextDiscard]_vars

SpecTolerance == Init /\ [][NextTolerance]_vars

SpecScan == Init /\ [][NextScan]_vars

SpecStores == Init /\ [][NextStores]_vars

(* Scheduling: a handler that can take its next step takes it, the clock
   advances, the provider finishes and reports the transfers it runs, and the
   client keeps polling the status of every order *)
HandlerStep(s) ==
  \/ StoreOp(s)
  \/ Respond(s)
  \/ CreateOrderDone(s)
  \/ CheckStatusAfterRead(s)
  \/ CheckStatusAfterExpire(s)
  \/ CheckStatusChainResult(s)
  \/ CheckStatusAfterCommit(s)
  \/ CheckStatusMeshResult(s, TRUE)
  \/ CheckStatusAfterMeshUpdate(s)
  \/ GenerateQRAfterRead(s)
  \/ GenerateQRAfterExpire(s)
  \/ GenerateQRLinkResult(s)
  \/ GenerateQRDone(s)
  \/ InitiatePaymentAfterRead(s)
  \/ InitiatePaymentAfterExpire(s)
  \/ InitiatePaymentAfterProcessing(s)
  \/ InitiatePaymentTransferResult(s)
  \/ InitiatePaymentDone(s)
  \/ MeshWebhookDone(s)
  \/ AlchemyWebhookAfterScan(s)
  \/ AlchemyWebhookDone(s)

Fairness ==
  /\ SF_vars(Tick)
  /\ SF_vars(\E id \in DOMAIN mesh, st \in {"completed", "failed"} : MeshResolve(id, st))
  /\ \A s \in Slots : WF_vars(HandlerStep(s))
  /\ \A s \in Slots : SF_vars(CheckStatusMeshResult(s, TRUE))
  /\ \A o \in OrderIds : SF_vars(\E s \in Slots : CheckStatusReq(s, o))

(* The order life cycle without the webhooks: the clock, order creation,
   generate-qr, initiate-payment, the transfer provider and the status poll *)
NextFair ==
  \/ Tick
  \/ \E k \in TransferIds : ChainTransfer(k)
  \/ \E s \in Handlers : StoreOp(s)
  \/ \E s \in Handlers : Respond(s)
  \/ \E s \in Handlers, a \in AmountInputs, n \in NetworkInputs :
       Room(a) /\ CreateOrderReq(s, a, n)
  \/ \E s \in Handlers : CreateOrderDone(s)
  \/ \E s \in Handlers, o \in OrderIds : CheckStatusReq(s, o)
  \/ \E s \in Handlers : CheckStatusAfterRead(s)
  \/ \E s \in Handlers : CheckStatusAfterExpire(s)
  \/ \E s \in Handlers : CheckStatusChainResult(s)
  \/ \E s \in Handlers : CheckStatusAfterCommit(s)
  \/ \E s \in Handlers, reachable \in BOOLEAN : CheckStatusMeshResult(s, reachable)
  \/ \E s \in Handlers : CheckStatusAfterMeshUpdate(s)
  \/ \E s \in Handlers, o \in OrderIds : GenerateQRReq(s, o)
  \/ \E s \in Handlers : GenerateQRAfterRead(s)
  \/ \E s \in Handlers : GenerateQRAfterExpire(s)
  \/ \E s \in Handlers : GenerateQRLinkResult(s)
  \/ \E s \in Handlers : GenerateQRDone(s)
  \/ \E s \in Handlers, o \in OrderIds : InitiatePaymentReq(s, o)
  \/ \E s \in Handlers : InitiatePaymentAfterRead(s)
  \/ \E s \in Handlers : InitiatePaymentAfterExpire(s)
  \/ \E s \in Handlers : InitiatePaymentAfterProcessing(s)
  \/ \E s \in Handlers : InitiatePaymentTransferResult(s)
  \/ \E s \in Handlers : InitiatePaymentDone(s)
  \/ \E id \in DOMAIN mesh, st \in {"completed", "failed"} : MeshResolve(id, st)

SpecFair == Init /\ [][NextFair]_vars /\ Fairness

(* The same handlers over the DynamoDB implementation of the store *)
InitDynamo == InitStore("dynamodb")

SpecDynamo == InitDynamo /\ [][Next]_vars

(* Two transfer-provider webhooks for one order at the same time, over the
   DynamoDB store: an order is created with its record, then deliveries for
   it overlap *)
NextConcurrent ==
  \/ \E s \in Slots : StoreOp(s)
  \/ \E s \in Slots : Respond(s)
  \/ \E s \in Slots, a \in AmountInputs, n \in NetworkInputs :
       Room(a) /\ CreateOrderReq(s, a, n)
  \/ \E s \in Slots : CreateOrderDone(s)
  \/ \E s \in Slots, o \in OrderIds, st \in MeshStatusInputs :
       o \in DOMAIN payments /\ MeshWebhookReq(s, o, st, TRUE, TRUE)
  \/ \E s \in Slots : MeshWebhookDone(s)

SpecConcurrent == InitDynamo /\ [][NextConcurrent]_vars

-----------------------------------------------------------------------------
(* Properties *)

NoHandlerInProgress == \A s \in Slots : slots[s].kind = "idle"

HistoryStatuses(o) ==
  [i \in 1..Len(payments[o].statusHistory) |-> payments[o].statusHistory[i].status]

(* The handler of slot s is about to write a completion to the payment record *)
Completing(s) ==
  \E i \in 1..Len(slots[s].ops) :
    /\ slots[s].ops[i].op = "updatePaymentStatus"
    /\ slots[s].ops[i].upd.status = "completed"

(* C1: no resurrection. Once the status of an order is completed, failed,
   expired or cancelled, no step of any handler changes that status. *)
NoResurrection ==
  [][\A o \in DOMAIN orders :
       orders[o].status \in TerminalStatuses => orders'[o].status = orders[o].status]_vars

(* C2: race safety, single commit. Once a webhook has committed a completion
   with its transactionHash, a webhook that tries to complete the same order
   afterwards is dropped: the stored transactionHash stays the one committed
   first. *)
WebhookCommitted(o) ==
  /\ o \in DOMAIN payments
  /\ payments[o].status = "completed"
  /\ \/ /\ payments[o].transactionHash = MESH_TX.hash
        /\ payments[o].meshTransferId = None
     \/ \E k \in TransferIds :
          /\ payments[o].transactionHash = TRANSFERS[k].hash
          /\ payments[o].senderAddress = TRANSFERS[k].from

FirstCommitWins ==
  [][\A s \in Slots :
       (/\ slots[s].kind \in {"mesh", "alchemy"}
        /\ Completing(s)
        /\ WebhookCommitted(slots[s].oid))
       => payments'[slots[s].oid].transactionHash = payments[slots[s].oid].transactionHash]_vars

(* C3: race safety, no mixed fields. The payment fields of a completed record
   (transactionHash, senderAddress, amount, network, asset) all come from one
   observation: a field is unset or is the value that observation carries. *)
Observations ==
  { [transactionHash |-> TRANSFERS[k].hash, senderAddress |-> TRANSFERS[k].from,
     amount |-> TRANSFERS[k].amount, networkId |-> TRANSFERS[k].network,
     stablecoin |-> TRANSFERS[k].symbol] : k \in TransferIds }
  \cup
  { [transactionHash |-> MESH_TX.hash, senderAddress |-> MESH_TX.from,
     amount |-> MESH_TX.amount, networkId |-> toLowerCase(MESH_TX.chain),
     stablecoin |-> MESH_TX.token] }

(* amount and stablecoin are also what createOrder's record would hold; the
   initial record leaves them unset *)
FromOneObservation(p) ==
  \E obs \in Observations :
    \A k \in DOMAIN obs : IsUndef(k, p[k]) \/ p[k] = obs[k]

NoMixedFields ==
  \A o \in DOMAIN payments :
    payments[o].status = "completed" => FromOneObservation(payments[o])

(* C4: idempotency of the history. The statusHistory of a record holds at most
   one entry for each terminal status, however often that transition is
   applied. *)
OneEntryPerTerminalTransition ==
  \A o \in DOMAIN payments :
    \A i, j \in 1..Len(payments[o].statusHistory) :
      (/\ payments[o].statusHistory[i].status \in TerminalStatuses
       /\ payments[o].statusHistory[i].status = payments[o].statusHistory[j].status)
      => i = j

(* C5: idempotency of updatedAt. A step that leaves a terminal status as it is
   (the same terminal transition applied again) changes updatedAt neither on
   the Order nor on the PaymentStatusRecord. *)
SecondCallKeepsUpdatedAt ==
  [][/\ \A o \in DOMAIN orders :
          (orders[o].status \in TerminalStatuses /\ orders'[o].status = orders[o].status)
          => orders'[o].updatedAt = orders[o].updatedAt
     /\ \A o \in DOMAIN payments :
          (payments[o].status \in TerminalStatuses /\ payments'[o].status = payments[o].status)
          => payments'[o].updatedAt = payments[o].updatedAt]_vars

(* C6: expiration. Once an order is expired, no step sets the Order or its
   PaymentStatusRecord to completed. *)
NoCompletionAfterExpiry ==
  [][\A o \in DOMAIN orders :
       orders[o].status = "expired" =>
         /\ orders'[o].status # "completed"
         /\ (o \in DOMAIN payments /\ payments[o].status # "completed")
              => payments'[o].status # "completed"]_vars

(* C8: every change of an order's status follows a legal edge of the state
   machine: pending -> scanning -> processing -> completed; pending, scanning,
   processing -> failed; pending, scanning -> expired; pending, scanning,
   processing -> cancelled. *)
LegalEdges ==
  { <<"pending", "scanning">>, <<"scanning", "processing">>, <<"processing", "completed">> }
  \cup { <<from, "failed">> : from \in {"pending", "scanning", "processing"} }
  \cup { <<from, "expired">> : from \in {"pending", "scanning"} }
  \cup { <<from, "cancelled">> : from \in {"pending", "scanning", "processing"} }

OnlyLegalEdges ==
  [][\A o \in DOMAIN orders :
       orders'[o].status # orders[o].status
       => <<orders[o].status, orders'[o].status>> \in LegalEdges]_vars

(* C10: with the shared secret configured, a provider webhook request changes
   a stored record only if its signature verifies over the raw payload. *)
OnlyVerifiedProviderWebhooksWrite ==
  [][\A s \in Slots :
       (/\ env.MESH_WEBHOOK_SECRET
        /\ slots[s].kind = "mesh"
        /\ (orders' # orders \/ payments' # payments))
       => verifySignature(slots[s].body, slots[s].sig, MESH_WEBHOOK_SECRET)]_vars

(* C7: end to end. For an order created with the auto selector, when a status
   poll has detected a transfer within tolerance and written its result, the
   order is completed, its record is completed with the transfer's
   transactionHash, and the statusHistory is exactly the pending entry of the
   creation followed by the completed entry, also when generate-qr was called
   before the poll. *)
ChainHashes == {TRANSFERS[k].hash : k \in TransferIds}

CompletedEndToEnd(o) ==
  /\ orders[o].status = "completed"
  /\ o \in DOMAIN payments
  /\ payments[o].status = "completed"
  /\ payments[o].transactionHash \in ChainHashes
  /\ HistoryStatuses(o) = <<"pending", "completed">>

(* The status poll of slot s has detected a transfer for o and written it *)
PollDetected(s, o) ==
  /\ slots[s].kind = "check"
  /\ slots[s].oid = o
  /\ slots[s].pc = "cs_commit"
  /\ slots[s].ops = NoOps
  /\ ~slots[s].err

EndToEnd ==
  \A o \in DOMAIN orders :
    orders[o].networkId = "auto" =>
      \A s \in Slots : PollDetected(s, o) => CompletedEndToEnd(o)

(* the poll of an auto order detects a transfer after generate-qr has answered *)
EndToEndReached ==
  \E o \in DOMAIN orders, s \in Slots :
    /\ orders[o].networkId = "auto"
    /\ o \in linked
    /\ \A t \in Slots \ {s} : slots[t].kind = "idle"
    /\ PollDetected(s, o)
    /\ CompletedEndToEnd(o)

(* C9: convergence. With time advancing and the client polling, every created
   order eventually reaches a terminal status. *)
Converges ==
  \A o \in OrderIds :
    (o \in DOMAIN orders) ~> (o \in DOMAIN orders /\ orders[o].status \in TerminalStatuses)

(* C11: a chain-indexer webhook request is processed only when its signature
   is the HMAC of the raw body under the indexer signing key; any other
   request is answered 401, and no step of it changes an order or a payment
   record. *)
IndexerSignaturePolicy ==
  /\ [](\A s \in Slots :
          /\ slots[s].kind = "alchemy"
               => slots[s].sig = hmac(ALCHEMY_WEBHOOK_SIGNING_KEY, slots[s].body)
          /\ (/\ slots[s].pc = "dismissed"
              /\ last.kind = "alchemy"
              /\ slots[s].sig # hmac(ALCHEMY_WEBHOOK_SIGNING_KEY, slots[s].body))
               => last.code = 401)
  /\ [][(last'.kind = "alchemy" /\ last'.code = 401)
          => (orders' = orders /\ payments' = payments)]_vars

(* C12: the status check masks signal-source failures. When the blockchain
   scan of a status check ends without a transfer (an RPC error included) or
   the poll of the transfer provider throws, that step changes no order and
   no payment record, and the check answers 200 with the status of the order
   as the handler has it. *)
MasksSignalFailures ==
  [][\A s \in Slots :
       (/\ slots[s].kind = "check"
        /\ slots[s].ops = NoOps
        /\ \/ slots[s].pc = "cs_chain" /\ slots'[s].pc \notin {"cs_chain", "cs_commit"}
           \/ CheckStatusMeshResult(s, FALSE))
       => /\ orders' = orders
          /\ payments' = payments
          /\ last' = Response("check", slots[s].oid, 200, slots[s].ord.status)]_vars

(* a status check has answered pending although a matching transfer is in the
   scanned window: its scan failed *)
ScanFailureMasked ==
  \E o \in DOMAIN orders :
    /\ last = Response("check", o, 200, "pending")
    /\ orders[o].status = "pending"
    /\ IF orders[o].networkId = "auto"
       THEN checkAllNetworksForTransfers(chain, orders[o].merchantWalletAddress,
                                         orders[o].amount, None, now, {}, {}).found
       ELSE checkForTransfers(chain, orders[o].merchantWalletAddress, orders[o].networkId,
                              orders[o].amount, now, FALSE, {}).found

(* C13: a provider webhook applies its mapped status to the order. When the
   record of a non-terminal order holds what a succeeded (respectively failed)
   provider webhook wrote, a status check of that order reports completed
   (respectively failed). *)
ProviderWebhookApplied ==
  [][\A s \in Slots :
       LET o == slots[s].oid
       IN (/\ slots[s].kind = "check"
           /\ last'.kind = "check"
           /\ last'.code = 200
           /\ o \in DOMAIN orders
           /\ o \in DOMAIN payments
           /\ orders[o].status \notin TerminalStatuses
           /\ payments[o].meshTransferId = None
           /\ \/ payments[o].status = "failed"
              \/ payments[o].status = "completed" /\ payments[o].transactionHash = MESH_TX.hash)
          => last'.status = payments[o].status]_vars

(* C14: a webhook call whose payload cannot be parsed is a no-op answered
   200. No handler works on an unparseable body, a call with such a body
   changes neither orders nor payment records, and it is answered 200 unless
   its signature was refused (401) before the body was parsed. *)
UnparseableWebhookIsNoOp ==
  /\ [](\A s \in Slots :
          /\ slots[s].kind = "mesh" => slots[s].body.TransferStatus # "{"
          /\ slots[s].kind = "alchemy" => slots[s].body # 0
          /\ (slots[s].pc = "dismissed" /\ last.kind = "mesh"
              /\ slots[s].body.TransferStatus = "{")
               => \/ last.code = 200
                  \/ /\ last.code = 401
                     /\ env.MESH_WEBHOOK_SECRET
                     /\ slots[s].sig = hmac("forged", slots[s].body)
          /\ (slots[s].pc = "dismissed" /\ last.kind = "alchemy" /\ slots[s].body = 0)
               => \/ last.code = 200
                  \/ /\ last.code = 401
                     /\ env.ALCHEMY_WEBHOOK_SIGNING_KEY
                     /\ slots[s].sig # hmac(ALCHEMY_WEBHOOK_SIGNING_KEY, slots[s].body))
  /\ [][\A s \in Slots :
          (/\ slots'[s].pc = "dismissed"
           /\ \/ last'.kind = "mesh" /\ slots'[s].body.TransferStatus = "{"
              \/ last'.kind = "alchemy" /\ slots'[s].body = 0)
          => (orders' = orders /\ payments' = payments)]_vars

(* an unparseable provider webhook body that passed the signature check has
   been answered 200 while an order was open *)
UnparseableAnswered200 ==
  \E s \in Slots :
    /\ slots[s].pc = "dismissed"
    /\ last.kind = "mesh"
    /\ last.code = 200
    /\ slots[s].body.TransferStatus = "{"
    /\ env.MESH_WEBHOOK_SECRET
    /\ slots[s].sig = hmac(MESH_WEBHOOK_SECRET, slots[s].body)
    /\ \E o \in DOMAIN orders : orders[o].status = "pending"

(* C15: createOrder accepts an amount only when 0 < amount <= 10000. A
   request with an amount in that range is taken on; a request with any other
   amount is answered 400 and stores neither an Order nor a
   PaymentStatusRecord; every stored order has an amount in the range. *)
CreateOrderValidatesAmount ==
  /\ [](\A o \in DOMAIN orders :
          orders[o].amount > 0 /\ orders[o].amount <= MAX_AMOUNT_CENTS)
  /\ [][\A s \in Slots, a \in AmountBoundaryInputs, n \in NetworkInputs :
          CreateOrderReq(s, a, n) =>
            IF a > 0 /\ a <= MAX_AMOUNT_CENTS
            THEN slots'[s].kind = "create" /\ last' = NoResponse
            ELSE /\ last' = Response("create", 0, 400, None)
                 /\ slots'[s].kind = "done"
                 /\ orders' = orders
                 /\ payments' = payments]_vars

(* an amount out of range has been refused after an order of exactly 10000
   was stored *)
AmountRefused ==
  /\ last = Response("create", 0, 400, None)
  /\ \E o \in DOMAIN orders : orders[o].amount = MAX_AMOUNT_CENTS
  /\ DOMAIN payments = DOMAIN orders

(* C16: one logical creation. When create-order answers 201 the store holds
   the Order with status pending and expiresAt = createdAt + 15 minutes, and
   its PaymentStatusRecord with status pending and the single history entry
   (pending, "Order created"); an Order without its PaymentStatusRecord exists
   only while the handler creating it keeps the event loop, so no other
   handler can read it. *)
CreatedAsOne ==
  /\ \A o \in (DOMAIN orders) \ (DOMAIN payments) :
       /\ lock # 0
       /\ slots[lock].kind = "create"
       /\ slots[lock].oid = o
  /\ (last.kind = "create" /\ last.code = 201) =>
       LET o == last.oid
       IN /\ o \in DOMAIN orders
          /\ o \in DOMAIN payments
          /\ orders[o].status = "pending"
          /\ orders[o].createdAt = now
          /\ orders[o].expiresAt = orders[o].createdAt + ORDER_EXPIRATION_MINUTES
          /\ payments[o].status = "pending"
          /\ payments[o].statusHistory = <<HistoryEntry("pending", now, "Order created")>>

(* create-order has answered 201 *)
OrderCreated ==
  /\ last.kind = "create"
  /\ last.code = 201
  /\ last.oid \in DOMAIN orders

(* C17: generate-qr triggers no state transition. It answers 400 when the
   order it read is not expired and its status is neither pending nor
   scanning; for an order that is pending or scanning and not expired, no step
   of the handler changes the Order's status or the PaymentStatusRecord's
   status or statusHistory. *)
GenerateQRNoTransition ==
  [][\A s \in Slots :
       LET sl == slots[s]
           o == sl.oid
       IN (sl.kind = "qr" /\ sl.ord.orderId # 0 /\ slots'[s] # sl) =>
            /\ (/\ sl.pc = "gq_read"
                /\ sl.ops = NoOps
                /\ sl.ord.expiresAt >= now
                /\ sl.ord.status \notin {"pending", "scanning"})
                 => last'.code = 400
            /\ (sl.pc \in {"gq_link", "gq_update"} /\ o \in DOMAIN payments)
                 => /\ orders'[o].status = orders[o].status
                    /\ payments'[o].status = payments[o].status
                    /\ payments'[o].statusHistory = payments[o].statusHistory]_vars

(* C18: expiry on status read. When a status check has read an order with
   now > expiresAt and status pending or scanning, it writes expired to the
   order and answers with the expired order; in every other case the expiry
   check issues no write and the order stays as it is. *)
ChecksExpiryOnRead ==
  [][\A s \in Slots :
       LET sl == slots[s]
           o == sl.oid
       IN (sl.kind = "check" /\ sl.ord.orderId # 0 /\ slots'[s] # sl) =>
            /\ (sl.pc = "cs_read" /\ sl.ops = NoOps) =>
                 IF sl.ord.expiresAt < now /\ sl.ord.status \in {"pending", "scanning"}
                 THEN slots'[s].ops = <<CallUpdateOrderStatus("expired")>>
                 ELSE slots'[s].ops = NoOps /\ orders' = orders
            /\ (sl.pc = "cs_expire" /\ sl.ops # NoOps) =>
                 /\ orders'[o].status = "expired"
                 /\ orders'[o].updatedAt = now
            /\ (sl.pc = "cs_expire" /\ sl.ops = NoOps /\ ~sl.err) =>
                 last' = Response("check", o, 200, "expired")]_vars

(* a status check has expired a pending order and answered with it *)
ExpiredOnRead ==
  \E o \in DOMAIN orders :
    /\ last = Response("check", o, 200, "expired")
    /\ orders[o].status = "expired"
    /\ orders[o].updatedAt = now
    /\ orders[o].expiresAt < now

(* C19: tolerance matching. An observed amount matches an expected amount iff
   abs(observed - expected) / expected <= TOLERANCE, with 1% for the strict
   matcher and 5% for the loose ones; for 10.00 an observed 10.09 matches
   under the strict tolerance, and an observed 10.15 is refused under the
   strict tolerance and matches under the loose one. *)
ToleranceMatching ==
  probe.fn = "tolerance" =>
    LET diff == IF probe.observed < probe.expected THEN probe.expected - probe.observed
                ELSE probe.observed - probe.expected
    IN /\ probe.strict <=> (100 * diff <= 1 * probe.expected)
       /\ probe.scan <=> (100 * diff <= 5 * probe.expected)
       /\ probe.webhook <=> (100 * diff <= 5 * probe.expected)
       /\ (probe.expected = 1000 /\ probe.observed = 1009) => probe.strict
       /\ (probe.expected = 1000 /\ probe.observed = 1015)
            => (~probe.strict /\ probe.scan /\ probe.webhook)

(* 10.15 observed for 10.00: refused by the strict matcher, taken by the loose *)
ToleranceCaseApplied ==
  /\ probe.fn = "tolerance"
  /\ probe.expected = 1000
  /\ probe.observed = 1015
  /\ ~probe.strict
  /\ probe.scan

(* C20: tie-break. When the chain-indexer webhook has matched a transfer to
   an order, no other open order of the same merchant address with the same
   amount was created before the matched one. *)
TieBreakOldest ==
  \A s \in Slots :
    (slots[s].kind = "alchemy" /\ slots[s].pc = "aw_commit") =>
      LET o == slots[s].oid
      IN \A p \in (DOMAIN orders) \ {o} :
           (/\ orders[p].status \in {"pending", "scanning"}
            /\ orders[p].merchantWalletAddress = orders[o].merchantWalletAddress
            /\ orders[p].amount = orders[o].amount)
           => orders[p].createdAt >= orders[o].createdAt

(* two open orders of 5.00 created at t1 < t2, and the transfer of 5.00 has
   been matched to the one created at t1 *)
TieBroken ==
  \E s \in Slots, p \in DOMAIN orders :
    /\ slots[s].kind = "alchemy"
    /\ slots[s].pc = "aw_commit"
    /\ p # slots[s].oid
    /\ orders[p].status = "pending"
    /\ orders[p].amount = orders[slots[s].oid].amount
    /\ orders[p].createdAt > orders[slots[s].oid].createdAt
    /\ TRANSFERS[slots[s].tr].amount = orders[p].amount

(* C21: immutable creation fields. Every stored order stays stored, and its
   orderId, amount, networkId, stablecoin, merchantWalletAddress, createdAt
   and expiresAt are the same after every step of every handler; expiresAt is
   the creation time plus the expiry period and is never extended. *)
CreationFieldsKept ==
  /\ [](\A o \in DOMAIN orders :
          /\ orders[o].orderId = o
          /\ orders[o].expiresAt = orders[o].createdAt + ORDER_EXPIRATION_MINUTES)
  /\ [][\A o \in DOMAIN orders :
          /\ o \in DOMAIN orders'
          /\ orders'[o].orderId = orders[o].orderId
          /\ orders'[o].amount = orders[o].amount
          /\ orders'[o].networkId = orders[o].networkId
          /\ orders'[o].stablecoin = orders[o].stablecoin
          /\ orders'[o].merchantWalletAddress = orders[o].merchantWalletAddress
          /\ orders'[o].createdAt = orders[o].createdAt
          /\ orders'[o].expiresAt = orders[o].expiresAt]_vars

(* an order whose status was rewritten by updateOrderStatus after its creation
   and whose expiry is still the one given at creation *)
StatusRewrittenAfterCreation ==
  \E o \in DOMAIN orders :
    /\ orders[o].status # "pending"
    /\ orders[o].updatedAt > orders[o].createdAt
    /\ orders[o].expiresAt = orders[o].createdAt + ORDER_EXPIRATION_MINUTES

(* C22: status history tracks order status. Every status change of an order
   appends one statusHistory entry carrying the new status, so that once the
   handler calls have returned the last entry of the history of an order
   carries the current status of the order. *)
HistoryTracksOrderStatus ==
  NoHandlerInProgress =>
    \A o \in (DOMAIN orders) \cap (DOMAIN payments) :
      /\ Len(payments[o].statusHistory) >= 1
      /\ payments[o].statusHistory[Len(payments[o].statusHistory)].status = orders[o].status

(* C23: record mirrors order. Whenever no handler call is in progress, the
   status of the payment record of an order equals the status of the order. *)
RecordMirrorsOrder ==
  NoHandlerInProgress =>
    \A o \in (DOMAIN orders) \cap (DOMAIN payments) :
      payments[o].status = orders[o].status

(* C24: late provider signals do not regress. When the payment record of an
   order is completed or failed and a transfer-provider webhook carrying the
   status pending, or a status the handler does not recognise, stores its
   update, the record keeps its status and its transactionHash. *)
LateProviderSignalKeepsRecord ==
  [][\A s \in Slots :
       (/\ slots[s].kind = "mesh"
        /\ slots[s].pc = "mw_update"
        /\ slots[s].ops # NoOps
        /\ slots'[s].ops = NoOps
        /\ slots[s].ops[1].upd.status = "processing"
        /\ slots[s].oid \in DOMAIN payments
        /\ payments[slots[s].oid].status \in {"completed", "failed"})
       => /\ payments'[slots[s].oid].status = payments[slots[s].oid].status
          /\ payments'[slots[s].oid].transactionHash
               = payments[slots[s].oid].transactionHash]_vars

(* C25: status history is append-only under concurrency. Every step of every
   handler, also when two handlers update the record of one order at the same
   time, leaves every entry of statusHistory in place: the history after the
   step extends the history before it. *)
HistoryAppendOnly ==
  [][\A o \in DOMAIN payments :
       /\ o \in DOMAIN payments'
       /\ Len(payments'[o].statusHistory) >= Len(payments[o].statusHistory)
       /\ SubSeq(payments'[o].statusHistory, 1, Len(payments[o].statusHistory))
            = payments[o].statusHistory]_vars

(* C26: poll of the transfer provider. A status check polls the provider only
   for an order that is processing and whose record has a provider transfer
   id. When the provider answers completed the order is stored as completed,
   when it answers failed the order is stored as failed; for every other
   answer the check changes no order and reports the status the order has. *)
ProviderPollMapping ==
  [][\A s \in Slots :
       /\ (slots[s].kind = "check" /\ slots[s].pc # "cs_mesh" /\ slots'[s].pc = "cs_mesh")
          => /\ slots'[s].ord.status = "processing"
             /\ slots'[s].pd.meshTransferId # None
       /\ (slots[s].kind = "check" /\ slots[s].pc # "cs_meshupd"
             /\ slots'[s].pc = "cs_meshupd")
          => slots[s].pc = "cs_mesh"
       /\ CheckStatusMeshResult(s, TRUE)
          => LET answer == mesh[slots[s].pd.meshTransferId]
                 current == slots[s].ord.status
             IN IF answer \in {"completed", "failed"} /\ answer # current
                THEN /\ slots'[s].pc = "cs_meshupd"
                     /\ slots'[s].nst = answer
                     /\ slots'[s].ops = <<CallUpdateOrderStatus(answer)>>
                ELSE /\ orders' = orders
                     /\ last' = Response("check", slots[s].oid, 200, current)
       /\ (/\ slots[s].kind = "check" /\ slots[s].pc = "cs_meshupd"
           /\ slots[s].ops # NoOps /\ slots'[s].ops = NoOps /\ ~slots'[s].err)
          => /\ orders'[slots[s].oid].status = slots[s].nst
             /\ \A p \in (DOMAIN orders) \ {slots[s].oid} : orders'[p] = orders[p]
       /\ (slots[s].kind = "check" /\ slots[s].pc = "cs_meshupd" /\ slots[s].ops = NoOps
             /\ ~slots[s].err /\ slots'[s].pc = "done")
          => /\ last' = Response("check", slots[s].oid, 200, slots[s].nst)
             /\ orders'[slots[s].oid].status = slots[s].nst]_vars

(* the provider answered completed for a processing order and the poll has
   stored the order as completed *)
PollStoredCompleted ==
  \E s \in Slots :
    /\ slots[s].kind = "check"
    /\ slots[s].pc = "cs_meshupd"
    /\ slots[s].ops = NoOps
    /\ slots[s].nst = "completed"
    /\ mesh[slots[s].pd.meshTransferId] = "completed"
    /\ orders[slots[s].oid].status = "completed"

(* C27: closest-amount selection. When the chain-indexer webhook has matched
   a transfer that is on the chain to an order, no other open order of the same merchant address
   within tolerance of the transfer has an amount closer to the amount of the
   transfer than the matched order has. *)
ClosestAmountChosen ==
  \A s \in Slots :
    (/\ slots[s].kind = "alchemy" /\ slots[s].pc = "aw_commit" /\ Len(slots[s].ops) = 2
     /\ \E i \in 1..Len(chain) : chain[i].id = slots[s].tr) =>
      LET o == slots[s].oid
          amount == TRANSFERS[slots[s].tr].amount
      IN \A p \in (DOMAIN orders) \ {o} :
           (/\ orders[p].status \in {"pending", "scanning"}
            /\ orders[p].merchantWalletAddress = orders[o].merchantWalletAddress
            /\ WithinWebhookTolerance(orders[p].amount, amount))
           => Abs(orders[o].amount - amount) <= Abs(orders[p].amount - amount)

(* C28: asset-selector matching. When a status check or the chain-indexer
   webhook has matched a transfer that is on the chain to an order, then the
   order was created with the auto selector, or the network and the symbol of
   the transfer are the networkId and the stablecoin of the order. *)
AssetSelectorRespected ==
  \A s \in Slots :
    (/\ \/ slots[s].kind = "alchemy" /\ slots[s].pc = "aw_commit"
        \/ slots[s].kind = "check" /\ slots[s].pc = "cs_commit"
     /\ Len(slots[s].ops) = 2
     /\ \E i \in 1..Len(chain) : chain[i].id = slots[s].tr) =>
      LET order == orders[slots[s].oid]
          transfer == TRANSFERS[slots[s].tr]
      IN \/ order.networkId = "auto"
         \/ /\ transfer.network = order.networkId
            /\ transfer.symbol = order.stablecoin

(* C29: a transfer that matches no open order is discarded. Of a
   chain-indexer webhook call only the two store calls made after a match
   change an order or a payment record, and a match is made only for an
   activity that is a token transfer of a known stablecoin and an order of the
   receiving address that is pending or scanning and within tolerance of the
   amount; every other activity leaves all orders and records as they were. *)
UnmatchedActivityDiscarded ==
  [][\A s \in Slots :
       /\ (/\ slots'[s].pc # slots[s].pc \/ slots'[s].ops # slots[s].ops
           /\ \/ slots[s].kind = "alchemy"
              \/ slots'[s].kind = "alchemy"
              \/ last'.kind = "alchemy"
           /\ ~(slots[s].kind = "alchemy" /\ slots[s].pc = "aw_commit"
                  /\ slots[s].ops # NoOps))
          => /\ orders' = orders
             /\ payments' = payments
       /\ (slots'[s].kind = "alchemy" /\ slots'[s].pc = "aw_commit"
             /\ slots[s].pc # "aw_commit")
          => LET activity == TRANSFERS[slots[s].tr]
                 o == slots'[s].oid
             IN /\ activity.category \in {"token", "erc20"}
                /\ activity.symbol \in STABLECOINS
                /\ o \in DOMAIN orders
                /\ orders[o].status \in {"pending", "scanning"}
                /\ toLowerCase(orders[o].merchantWalletAddress) = toLowerCase(activity.to)
                /\ Abs(orders[o].amount - activity.amount) * 100 <= 5 * orders[o].amount]_vars

(* a signed delivery of a transfer of the native coin, made while an order of
   the address is pending, has been answered and nothing was completed *)
NativeTransferDiscarded ==
  \E s \in Slots, o \in DOMAIN orders :
    /\ last.kind = "alchemy"
    /\ last.code = 200
    /\ slots[s].pc = "dismissed"
    /\ slots[s].body \in ActivityIds
    /\ slots[s].sig = hmac(ALCHEMY_WEBHOOK_SIGNING_KEY, slots[s].body)
    /\ TRANSFERS[slots[s].body].category = "external"
    /\ orders[o].status = "pending"
    /\ payments[o].status = "pending"

(* C30: one transfer pays one order. No two orders are completed with the
   transactionHash of the same transfer on the chain, whatever status checks
   and chain-indexer webhook deliveries have been made. *)
OneTransferOneOrder ==
  \A o \in DOMAIN orders, p \in DOMAIN orders :
    (/\ o # p
     /\ o \in DOMAIN payments
     /\ p \in DOMAIN payments
     /\ orders[o].status = "completed"
     /\ orders[p].status = "completed"
     /\ \E i \in 1..Len(chain) : TRANSFERS[chain[i].id].hash = payments[o].transactionHash)
    => payments[p].transactionHash # payments[o].transactionHash

(* C31: the poll completes an order only on a transfer made after the order
   was created. When a status check has matched a transfer on the chain to
   an order, the block of the transfer is not earlier than the creation of
   the order. *)
PollEvidenceAfterCreation ==
  \A s \in Slots :
    (slots[s].kind = "check" /\ slots[s].pc = "cs_commit" /\ Len(slots[s].ops) = 2) =>
      \A i \in 1..Len(chain) :
        chain[i].id = slots[s].tr => chain[i].block >= orders[slots[s].oid].createdAt

(* C32: a completed order has a completed record. Whenever no handler call is
   in progress, every order whose status is completed has a payment record
   whose status is completed and whose transactionHash is set. *)
CompletedOrderHasCompletedRecord ==
  NoHandlerInProgress =>
    \A o \in DOMAIN orders :
      orders[o].status = "completed" =>
        /\ o \in DOMAIN payments
        /\ payments[o].status = "completed"
        /\ payments[o].transactionHash # None

(* C33: initiate-payment leaves the order unchanged on error. When the
   preview or execute call of the provider fails and the handler answers 500,
   the stored order has the status it had when the handler read it at the
   start of the call. *)
InitiatePaymentErrorKeepsOrder ==
  [][\A s \in Slots :
       (/\ slots[s].kind = "pay"
        /\ slots[s].pc = "ip_transfer"
        /\ slots'[s].pc = "done"
        /\ last'.code = 500)
       => orders'[slots[s].oid].status = slots[s].ord.status]_vars

(* C34: orders and payment records stay 1:1. A payment record is stored for
   an order id only if an order with that id is stored; a webhook naming an
   order id that no order has creates no record. *)
RecordOnlyForOrder ==
  \A o \in DOMAIN payments : o \in DOMAIN orders

(* C35: blockchain scan completeness. If the scanned window of the network
   holds a transfer of one of the network's stablecoins to the merchant
   address whose amount is within tolerance of the expected amount, then
   checkForTransfers reports found with a transfer within tolerance, also
   when a later transfer of the same token is outside tolerance. *)
ScanComplete ==
  probe.fn = "scan" =>
    ((\E i \in 1..Len(probe.logs) :
        LET t == TRANSFERS[probe.logs[i].id]
        IN /\ probe.logs[i].block >= probe.currentBlock - SCAN_WINDOW_BLOCKS
           /\ t.network = probe.networkId
           /\ \E j \in 1..Len(TOKEN_CONTRACTS[probe.networkId]) :
                TOKEN_CONTRACTS[probe.networkId][j] = t.symbol
           /\ t.to = MERCHANT
           /\ Abs(t.amount - probe.expected) * 100 <= 5 * probe.expected)
     => /\ probe.result.found
        /\ Abs(TRANSFERS[probe.result.tr].amount - probe.expected) * 100
             <= 5 * probe.expected)

(* C36: a status check of a terminal order is read-only. When the order a
   status check has read is completed, failed, expired or cancelled, the
   check writes nothing and calls no signal source: its reads leave orders
   and records as they are, and its next step is the answer 200 with the
   stored status, again with orders and records as they are. *)
TerminalCheckReadOnly ==
  [][\A s \in Slots :
       /\ (slots[s].kind = "check" /\ slots[s].pc = "cs_read"
             /\ slots'[s].ops # slots[s].ops)
          => (orders' = orders /\ payments' = payments)
       /\ (/\ slots[s].kind = "check" /\ slots[s].pc = "cs_read" /\ slots[s].ops = NoOps
           /\ slots[s].ord.orderId # 0
           /\ slots[s].ord.status \in TerminalStatuses
           /\ slots'[s].pc # "cs_read")
          => /\ slots'[s].pc = "done"
             /\ orders' = orders
             /\ payments' = payments
             /\ last' = Response("check", slots[s].oid, 200, orders[slots[s].oid].status)]_vars

(* a status check has answered with the terminal status that the order
   already had before the check was made *)
TerminalStatusReported ==
  /\ last.kind = "check"
  /\ last.code = 200
  /\ last.status \in TerminalStatuses
  /\ last.oid \in DOMAIN orders
  /\ orders[last.oid].status = last.status
  /\ orders[last.oid].updatedAt < now

(* C37: multi-network scan isolation. checkAllNetworksForTransfers reports
   found exactly when the scan of at least one network finds a matching
   transfer, whatever fails on the other networks, and then returns the
   result of the first network that found one in the order preferred network,
   base, polygon, arbitrum, optimism, avalanche, bsc, ethereum. *)
ScanAllIsolation ==
  probe.fn = "scanAll" =>
    LET priority == <<"base", "polygon", "arbitrum", "optimism", "avalanche", "bsc",
                      "ethereum">>
        order == IF probe.preferred = None THEN priority
                 ELSE <<probe.preferred>>
                        \o SelectSeq(priority, LAMBDA n : n # probe.preferred)
        scanOf(n) == checkForTransfers(probe.logs, MERCHANT, n, probe.expected,
                                       probe.currentBlock, n \in probe.down,
                                       probe.failTokens)
    IN /\ probe.result.found <=> \E i \in 1..Len(order) : scanOf(order[i]).found
       /\ probe.result.found =>
            \E i \in 1..Len(order) :
              /\ scanOf(order[i]).found
              /\ \A j \in 1..(i - 1) : ~scanOf(order[j]).found
              /\ probe.result = scanOf(order[i])

(* the RPC of base is down while base holds a matching transfer, polygon
   holds one too, and the scan reports the transfer on polygon *)
FoundDespiteFailure ==
  /\ probe.fn = "scanAll"
  /\ "base" \in probe.down
  /\ "polygon" \notin probe.down
  /\ \E i \in 1..Len(probe.logs) : probe.logs[i].id = 1
  /\ probe.expected = 500
  /\ probe.result.found
  /\ TRANSFERS[probe.result.tr].network = "polygon"

(* C38: the two stores are interchangeable. After the same sequence of
   createOrder, getOrder, updateOrderStatus, upsertPaymentStatus and
   updatePaymentStatus calls on an in-memory store and on a DynamoDB store,
   the last call returned the same from both (the same value, or an error
   from both) and both hold the same orders and the same payment records. *)
StoresInterchangeable ==
  probe.fn = "stores" =>
    /\ probe.memResult = probe.ddbResult
    /\ probe.mem = probe.ddb

====
